---- MODULE Spec2Model ----
(***************************************************************************)
(* Model of the OpenAlex harvesters scripts/conf_jour_outputs.py and       *)
(* scripts/nust_authors.py: the retrying fetcher, the cursor paginators,   *)
(* the upserts into the SQLite store and the two main() orchestrators.     *)
(*                                                                         *)
(* Times are integers in units of 1e-7 s, so that every delay the retry    *)
(* loop can compute (0.6 * 1.6^k, 0.5 * 1.6^k, k <= 6) is exact.           *)
(***************************************************************************)
EXTENDS Integers, Sequences, FiniteSets, TLC

VARIABLES
    script,     \* which of the two scripts runs: "conf_jour_outputs" or "nust_authors"
    fpc,        \* get_with_retry: position of the current call
    tries,      \* get_with_retry: `tries` (conf_jour_outputs) / `attempt` (nust_authors)
    delay,      \* get_with_retry: `delay`
    resp,       \* get_with_retry: status code of `resp`
    flog,       \* the r.get and time.sleep calls of the current get_with_retry call
    calls,      \* number of get_with_retry calls started so far
    topics,     \* table topics: topic_id -> row
    topic_cache,\* nust_authors._topic_cache: topic_id -> details
    lastUpsert, \* the last INSERT INTO topics: its key, its NULL values, whether it conflicted
    tpc,        \* "run", or "crashed" once sqlite3.IntegrityError has left upsert_topic
    iter,       \* the paginator (generator) that is live, or None
    ipc,        \* its position: "fetch", "yield", "suspended", "done", "raised"
    cursor,     \* its params["cursor"]
    data,       \* its `data`, the JSON of the page last fetched
    rest,       \* the results of `data` not yet yielded
    item,       \* the record handed to the consumer by the last `yield`
    served,     \* the pages the server has answered this paginator with, in order
    yielded,    \* the records the consumer has received from this paginator, in order
    plog,       \* the get_with_retry and time.sleep calls of this paginator, in order
    authors,    \* table authors: author_id -> row
    works,      \* table works (conf_jour_outputs) / works_2025 (nust_authors): work_id -> row
    facts,      \* table fact_authorships_works / authorships_2025: its rows
    links,      \* table work_topics_2025: its rows
    committed,  \* the five tables as of the last con.commit()
    hpc,        \* main(): position
    run,        \* which run of main() this is
    author_ids, \* main(): author_ids
    ai,         \* main(): index in author_ids of `aid`
    yr,         \* main(): `yr` (conf_jour_outputs), YEAR (nust_authors)
    author_count, \* main(): count_authors / author_count
    seen_works, \* main(): seen_works / seen_work_ids
    todo,       \* attach_work_topics: the topic references still to upsert and link
    link_tid,   \* attach_work_topics: `tid`, the value of the last upsert_topic
    warnings,   \* the "Warning: ... fetch failed" lines printed in this run
    upstream,   \* the upstream snapshot as discovered so far: request -> answer
    tcalls,     \* topic_id -> number of GET /topics/{id} calls answered in this run
    observed,   \* (author_id, work_id) -> times a payload with that authorship was processed
    after1,     \* the tables as the first run left them
    cwork,      \* classify_venue_type: its argument `work`
    cresult,    \* classify_venue_type: the value returned
    cpc,        \* classify_venue_type: "idle", "called" or "returned"
    rlast,      \* the last call of get_topic_details or upsert_topic: arguments and outcome
    resolved,   \* topic_id -> times get_topic_details got its record from the server
    rfirst,     \* topic_id -> the record get_topic_details first returned for it
    rcount,     \* calls of get_topic_details and upsert_topic made so far
    rfailed     \* the topic ids of which a resolution has raised

fvars == <<fpc, tries, delay, resp, flog, calls>>

tvars == <<topics, topic_cache, lastUpsert, tpc>>

pvars == <<iter, ipc, cursor, data, rest, item, served, yielded, plog>>

cvars == <<cwork, cresult, cpc>>

rvars == <<rlast, resolved, rfirst, rcount, rfailed>>

xvars == <<cvars, rvars>>

dbvars == <<authors, works, facts, links, committed>>

hvars == <<hpc, run, author_ids, ai, yr, author_count, seen_works, todo, link_tid,
           warnings, upstream, tcalls, observed, after1>>

None == "None"

Scripts == {"conf_jour_outputs", "nust_authors"}

----------------------------------------------------------------------------
(* Configuration                                                           *)

RETRY_MAX == 5

\* RETRY_BACKOFF = 1.6 = BackoffNum / BackoffDen
BackoffNum == 16

BackoffDen == 10

\* delay = 0.6 (conf_jour_outputs) and delay = 0.5 (nust_authors), in 1e-7 s
BaseDelayConfJour == 6000000

BaseDelayNust == 5000000

BaseDelay(s) ==
    IF s = "conf_jour_outputs" THEN BaseDelayConfJour ELSE BaseDelayNust

\* number of get_with_retry calls one behaviour of SpecFetch makes
MaxCalls == 2

\* number of get_topic_details / upsert_topic calls one behaviour of SpecResolve makes
MaxResolves == 2

\* PAGE_SLEEP = 0.2 (conf_jour_outputs), SLEEP_BETWEEN = 0.2 (nust_authors), in 1e-7 s
PAGE_SLEEP == 2000000

\* pages one listing of the mock server of SpecPage has at most
MaxPages == 2

\* records one page of the mock server of SpecPage has at most
MaxPageLen == 1

\* YEAR_START, YEAR_END (conf_jour_outputs) and YEAR (nust_authors): the
\* defaults of os.getenv
YEAR_START == 2023

YEAR_END == 2025

YEAR == 2025

\* `if count_authors % 500 == 0: con.commit()`: the batch of authors after
\* which main() commits.  The listings of the model are a few records long,
\* and the batch is scaled down with them, 500 records to 2.
COMMIT_EVERY == 2

\* pages of the author listing of SpecListing, at most
MaxListingPages == 3

\* work records in the pages of the upstream snapshot of Spec, at most
MaxWorks == 2

\* requests of the upstream snapshot of Spec that end in a fetch error, at most
MaxFaults == 2

\* runs of main() in one behaviour of Spec
NumRuns == 2

----------------------------------------------------------------------------
(* get_with_retry                                                          *)

PermanentStatuses == {403, 404, 422}

TransientStatuses == {429, 500, 502, 503, 504}

\* Status codes the server may answer with: 200, the enumerated ones, and
\* three the code does not enumerate.
Statuses == {200} \cup PermanentStatuses \cup TransientStatuses \cup {301, 400, 401}

IsPermanent(status) == status \in PermanentStatuses

IsTransientWith400(status) == status \in TransientStatuses \cup {400}

IsTransient(status) == status \in TransientStatuses

RetriesExceededEarly(t) == t > 1

RetriesExceededLate(t) == t > RETRY_MAX + 1

\* `if tries > RETRY_MAX`
RetriesExceeded(t) == t > RETRY_MAX

NextDelayNoBackoff(d) == d

\* `delay *= RETRY_BACKOFF`
NextDelay(d) == (d * BackoffNum) \div BackoffDen

GetEvent(status) == [op |-> "GET", arg |-> status]

SleepEvent(d) == [op |-> "SLEEP", arg |-> d]

FetchIdle ==
    /\ fpc = "idle"
    /\ tries = 0
    /\ delay = 0
    /\ resp = None
    /\ flog = <<>>
    /\ calls = 0

\* def get_with_retry(...): delay = 0.6 / 0.5; tries = 0
FetchCall ==
    /\ fpc \in {"idle", "returned", "rejected", "exhausted"}
    /\ calls < MaxCalls
    /\ calls' = calls + 1
    /\ fpc' = "get"
    /\ tries' = 0
    /\ delay' = BaseDelay(script)
    /\ resp' = None
    /\ flog' = <<>>
    /\ UNCHANGED script

\* resp = r.get(url, ...)
FetchGet ==
    /\ fpc = "get"
    /\ \E status \in Statuses :
          /\ resp' = status
          /\ flog' = Append(flog, GetEvent(status))
    /\ fpc' = "resp"
    /\ UNCHANGED <<xvars, script, tries, delay, calls>>

\* if resp.status_code == 200: return resp
FetchReturn ==
    /\ fpc = "resp"
    /\ resp = 200
    /\ fpc' = "returned"
    /\ UNCHANGED <<xvars, script, tries, delay, resp, flog, calls>>

\* if resp.status_code in (403, 404, 422): raise; and the final `raise`
FetchReject ==
    /\ fpc = "resp"
    /\ resp # 200
    /\ IsPermanent(resp) \/ ~IsTransient(resp)
    /\ fpc' = "rejected"
    /\ UNCHANGED <<xvars, script, tries, delay, resp, flog, calls>>

\* transient, tries + 1 > RETRY_MAX: raise "Retries exceeded"
FetchExhaust ==
    /\ fpc = "resp"
    /\ resp # 200
    /\ ~IsPermanent(resp)
    /\ IsTransient(resp)
    /\ RetriesExceeded(tries + 1)
    /\ tries' = tries + 1
    /\ fpc' = "exhausted"
    /\ UNCHANGED <<xvars, script, delay, resp, flog, calls>>

\* transient, tries + 1 <= RETRY_MAX: time.sleep(delay); delay *= RETRY_BACKOFF; continue
FetchRetry ==
    /\ fpc = "resp"
    /\ resp # 200
    /\ ~IsPermanent(resp)
    /\ IsTransient(resp)
    /\ ~RetriesExceeded(tries + 1)
    /\ tries' = tries + 1
    /\ flog' = Append(flog, SleepEvent(delay))
    /\ delay' = NextDelay(delay)
    /\ fpc' = "get"
    /\ UNCHANGED <<xvars, script, resp, calls>>

\* The whole of one get_with_retry call as a function of the statuses the
\* server answers with, one per r.get, in order: the same loop as the Fetch*
\* actions, run to its end.  `feed` must not run out before the call ends.
RECURSIVE RetryLoop(_, _, _, _)
RetryLoop(feed, t, d, log) ==
    LET status == Head(feed)
        log1 == Append(log, GetEvent(status))
    IN  IF status = 200
        THEN [result |-> "returned", log |-> log1]
        ELSE IF IsPermanent(status)
        THEN [result |-> "rejected", log |-> log1]
        ELSE IF IsTransient(status)
        THEN IF RetriesExceeded(t + 1)
             THEN [result |-> "exhausted", log |-> log1]
             ELSE RetryLoop(Tail(feed), t + 1, NextDelay(d), Append(log1, SleepEvent(d)))
        ELSE [result |-> "rejected", log |-> log1]

get_with_retry(s, feed) == RetryLoop(feed, 0, BaseDelay(s), <<>>)

----------------------------------------------------------------------------
(* JSON objects and SQL values                                             *)
(* A JSON object is a record whose fields are the keys present.  An object *)
(* valued key that is null is modelled as the key being absent: the code   *)
(* reads every such key as `d.get(k) or {}`, which does not tell them      *)
(* apart.  A scalar that is None, and the SQL NULL it is stored as, is     *)
(* None.  Entity ids, where present, are non-null strings.                 *)

EmptyObj == [k \in {} |-> None]

HasKey(d, k) == k \in DOMAIN d

\* d.get(k), for a scalar
GetStr(d, k) == IF k \in DOMAIN d THEN d[k] ELSE None

\* d.get(k) or {}
GetObj(d, k) == IF k \in DOMAIN d THEN d[k] ELSE EmptyObj

\* bool(d) of a dict
TruthyObj(d) == DOMAIN d # {}

\* a or b, of dicts
OrObj(a, b) == IF TruthyObj(a) THEN a ELSE b

\* a or b, of strings
OrStr(a, b) == IF a # None /\ a # "" THEN a ELSE b

CoalesceOverwrite(a, b) == a

\* SQL COALESCE(a, b)
Coalesce(a, b) == IF a # None THEN a ELSE b

----------------------------------------------------------------------------
(* Topics: get_topic_details and upsert_topic (nust_authors)               *)

HierarchyColumns == {"subfield_id", "subfield", "field_id", "field", "domain_id", "domain"}

TopicColumns == {"display_name"} \cup HierarchyColumns

\* get_topic_details that remembers a failed fetch as an empty record
get_topic_details_caching_failure(cache, tid, ans) ==
    IF tid \in DOMAIN cache
    THEN [raised |-> FALSE, details |-> cache[tid], cache |-> cache, log |-> <<>>]
    ELSE LET r == get_with_retry("nust_authors", ans.feed)
             obj == ans.body
             details ==
                 [id |-> GetStr(obj, "id"),
                  display_name |-> GetStr(obj, "display_name"),
                  subfield |-> GetObj(obj, "subfield"),
                  field |-> GetObj(obj, "field"),
                  domain |-> OrObj(GetObj(GetObj(obj, "field"), "domain"),
                                   GetObj(obj, "domain"))]
         IN  IF r.result # "returned"
             THEN [raised |-> TRUE, details |-> EmptyObj,
                   cache |-> (tid :> EmptyObj) @@ cache, log |-> r.log]
             ELSE [raised |-> FALSE, details |-> details,
                   cache |-> (tid :> details) @@ cache, log |-> r.log]

\* get_topic_details without `if topic_id in _topic_cache`
get_topic_details_uncached(cache, tid, ans) ==
    LET r == get_with_retry("nust_authors", ans.feed)
        obj == ans.body
        details ==
            [id |-> GetStr(obj, "id"),
             display_name |-> GetStr(obj, "display_name"),
             subfield |-> GetObj(obj, "subfield"),
             field |-> GetObj(obj, "field"),
             domain |-> OrObj(GetObj(GetObj(obj, "field"), "domain"),
                              GetObj(obj, "domain"))]
    IN  IF r.result # "returned"
        THEN [raised |-> TRUE, details |-> EmptyObj, cache |-> cache, log |-> r.log]
        ELSE [raised |-> FALSE, details |-> details,
              cache |-> (tid :> details) @@ cache, log |-> r.log]

\* def get_topic_details(topic_id): `ans` is what the server would answer,
\* [feed: the statuses of its GETs, body: the JSON of the 200].
get_topic_details(cache, tid, ans) ==
    IF tid \in DOMAIN cache
    THEN [raised |-> FALSE, details |-> cache[tid], cache |-> cache, log |-> <<>>]
    ELSE LET r == get_with_retry("nust_authors", ans.feed)
             obj == ans.body
             details ==
                 [id |-> GetStr(obj, "id"),
                  display_name |-> GetStr(obj, "display_name"),
                  subfield |-> GetObj(obj, "subfield"),
                  field |-> GetObj(obj, "field"),
                  domain |-> OrObj(GetObj(GetObj(obj, "field"), "domain"),
                                   GetObj(obj, "domain"))]
         IN  IF r.result # "returned"
             THEN [raised |-> TRUE, details |-> EmptyObj, cache |-> cache, log |-> r.log]
             ELSE [raised |-> FALSE, details |-> details,
                   cache |-> (tid :> details) @@ cache, log |-> r.log]

\* INSERT INTO topics ... ON CONFLICT(topic_id) DO UPDATE SET c = COALESCE(excluded.c, topics.c)
\* display_name is NOT NULL: a NULL value raises sqlite3.IntegrityError
\* whether or not the row exists, and changes nothing.
InsertTopicSkipped(table, tid, values) == [error |-> FALSE, table |-> table]

InsertTopic(table, tid, values) ==
    IF values.display_name = None
    THEN [error |-> TRUE, table |-> table]
    ELSE IF tid \in DOMAIN table
    THEN [error |-> FALSE,
          table |-> [table EXCEPT ![tid] =
                        [c \in TopicColumns |-> Coalesce(values[c], table[tid][c])]]]
    ELSE [error |-> FALSE, table |-> (tid :> values) @@ table]

IncompleteAlways(fld, dom) == TRUE

\* upsert_topic: `not (fld and dom)`
Incomplete(fld, dom) == ~(TruthyObj(fld) /\ TruthyObj(dom))

\* def upsert_topic(cur, t): the topics table and the cache after the call,
\* the value returned, and whether the INSERT raised.
upsert_topic(table, cache, t, ans) ==
    IF ~TruthyObj(t) \/ ~HasKey(t, "id")
    THEN [ret |-> None, error |-> FALSE, table |-> table, cache |-> cache,
          called |-> FALSE, inserted |-> FALSE, log |-> <<>>, values |-> EmptyObj]
    ELSE LET tid == t.id
             sub0 == GetObj(t, "subfield")
             fld0 == GetObj(t, "field")
             dom0 == GetObj(t, "domain")
             incomplete == Incomplete(fld0, dom0)
             g == get_topic_details(cache, tid, ans)
             enriched == incomplete /\ ~g.raised
             full == g.details
             sub == IF enriched THEN OrObj(sub0, GetObj(full, "subfield")) ELSE sub0
             fld == IF enriched THEN OrObj(fld0, GetObj(full, "field")) ELSE fld0
             dom == IF enriched THEN OrObj(dom0, GetObj(full, "domain")) ELSE dom0
             tdisp == IF enriched
                      THEN OrStr(GetStr(t, "display_name"), GetStr(full, "display_name"))
                      ELSE GetStr(t, "display_name")
             values ==
                 [display_name |-> tdisp,
                  subfield_id |-> GetStr(sub, "id"), subfield |-> GetStr(sub, "display_name"),
                  field_id |-> GetStr(fld, "id"), field |-> GetStr(fld, "display_name"),
                  domain_id |-> GetStr(dom, "id"), domain |-> GetStr(dom, "display_name")]
             ins == InsertTopic(table, tid, values)
         IN  [ret |-> IF ins.error THEN None ELSE tid,
              error |-> ins.error,
              table |-> ins.table,
              cache |-> IF incomplete THEN g.cache ELSE cache,
              called |-> incomplete,
              inserted |-> ~ins.error,
              log |-> IF incomplete THEN g.log ELSE <<>>,
              values |-> values]

\* The topic references a work payload may carry, and the answers of
\* GET /topics/{id}.
TopicIds == {"T1", "T2"}

Named(i, n) == [id |-> i, display_name |-> n]

SubfieldObjs == {EmptyObj, Named("S1", "Subfield1")}

FieldObjs == {EmptyObj, Named("F1", "Field1"), Named("F2", "Field2")}

DomainObjs == {EmptyObj, Named("D1", "Domain1")}

WithKey(d, k, v) == IF v = EmptyObj THEN d ELSE (k :> v) @@ d

TopicRefs ==
    {EmptyObj, [display_name |-> "Topic"]} \cup
    { WithKey(WithKey(WithKey(base, "subfield", sub), "field", fld), "domain", dom) :
         base \in {[id |-> tid] : tid \in TopicIds}
                  \cup {[id |-> tid, display_name |-> "Topic"] : tid \in TopicIds},
         sub \in SubfieldObjs, fld \in FieldObjs, dom \in DomainObjs }

TopicBodies(tid) ==
    { [id |-> tid, display_name |-> "TopicFull", subfield |-> Named("S1", "Subfield1"),
       field |-> Named("F1", "Field1"), domain |-> Named("D1", "Domain1")],
      [id |-> tid,
       field |-> [id |-> "F2", display_name |-> "Field2", domain |-> Named("D1", "Domain1")]] }

ExhaustingFeed == [i \in 1..(RETRY_MAX + 1) |-> 503]

TopicAnswers(tid) ==
    {[feed |-> <<200>>, body |-> b] : b \in TopicBodies(tid)}
    \cup {[feed |-> f, body |-> EmptyObj] : f \in {<<403>>, ExhaustingFeed}}

NoAnswer == [feed |-> <<>>, body |-> EmptyObj]

\* `not (fld and dom)` and a cache miss: upsert_topic(t) will call the server
WillFetchTopic(cache, t) ==
    /\ TruthyObj(t)
    /\ HasKey(t, "id")
    /\ ~(TruthyObj(GetObj(t, "field")) /\ TruthyObj(GetObj(t, "domain")))
    /\ t.id \notin DOMAIN cache

\* What the server may answer to the request upsert_topic(t) makes, if any.
AnswersTo(cache, t) ==
    IF WillFetchTopic(cache, t) THEN TopicAnswers(t.id) ELSE {NoAnswer}

NullColumns(values) == {c \in DOMAIN values : values[c] = None}

\* One call upsert_topic(cur, t), with whatever the server answers.
UpsertTopicCall ==
    /\ tpc = "run"
    /\ \E t \in TopicRefs :
       \E ans \in AnswersTo(topic_cache, t) :
          \E r \in {upsert_topic(topics, topic_cache, t, ans)} :
              /\ topics' = r.table
              /\ topic_cache' = r.cache
              /\ tpc' = IF r.error THEN "crashed" ELSE "run"
              /\ lastUpsert' =
                    IF r.inserted
                    THEN [tid |-> r.ret, nulls |-> NullColumns(r.values),
                          conflict |-> r.ret \in DOMAIN topics]
                    ELSE lastUpsert

NoUpsert == [tid |-> None, nulls |-> {}, conflict |-> FALSE]

\* Calls of get_topic_details and of upsert_topic in one process, each with
\* the answer the server would give if it were asked.
NoCall == [op |-> None]

ResolveIdle ==
    /\ rlast = NoCall
    /\ resolved = EmptyObj
    /\ rfirst = EmptyObj
    /\ rcount = 0
    /\ rfailed = {}

GetsOf(log) == Len(SelectSeq(log, LAMBDA e : e.op = "GET"))

CountOf(f, k) == IF k \in DOMAIN f THEN f[k] ELSE 0

\* full = get_topic_details(tid)
ResolveCall ==
    /\ tpc = "run"
    /\ rcount < MaxResolves
    /\ \E tid \in TopicIds :
       \E ans \in TopicAnswers(tid) :
       \E g \in {get_topic_details(topic_cache, tid, ans)} :
          /\ topic_cache' = g.cache
          /\ rlast' = [op |-> "get_topic_details", tid |-> tid,
                       known |-> tid \in DOMAIN rfirst,
                       failed_before |-> tid \in rfailed,
                       feed |-> ans.feed, log |-> g.log,
                       gets |-> GetsOf(g.log), raised |-> g.raised, details |-> g.details]
          /\ rfailed' = IF g.raised THEN rfailed \cup {tid} ELSE rfailed
          /\ resolved' = IF ~g.raised /\ GetsOf(g.log) > 0
                         THEN (tid :> CountOf(resolved, tid) + 1) @@ resolved
                         ELSE resolved
          /\ rfirst' = IF ~g.raised /\ tid \notin DOMAIN rfirst
                       THEN (tid :> g.details) @@ rfirst
                       ELSE rfirst
    /\ rcount' = rcount + 1
    /\ UNCHANGED <<topics, lastUpsert, tpc>>

\* tid = upsert_topic(cur, t).  Its get_topic_details has returned when it
\* was called and either made no GET (a cache hit) or got a 200 at last.
UpsertCall ==
    /\ tpc = "run"
    /\ rcount < MaxResolves
    /\ \E t \in TopicRefs :
       \E ans \in (IF HasKey(t, "id") THEN TopicAnswers(t.id) ELSE {NoAnswer}) :
       \E r \in {upsert_topic(topics, topic_cache, t, ans)} :
          LET gets == GetsOf(r.log)
              returned == r.called /\ (gets = 0 \/ r.log[Len(r.log)] = GetEvent(200))
          IN  /\ topics' = r.table
              /\ topic_cache' = r.cache
              /\ tpc' = IF r.error THEN "crashed" ELSE "run"
              /\ rlast' = [op |-> "upsert_topic", t |-> t,
                           known |-> HasKey(t, "id") /\ t.id \in DOMAIN rfirst,
                           failed_before |-> HasKey(t, "id") /\ t.id \in rfailed,
                           feed |-> ans.feed, log |-> r.log,
                           raised |-> r.called /\ ~returned,
                           gets |-> gets, called |-> r.called, error |-> r.error,
                           values |-> r.values,
                           before |-> [table |-> topics, cache |-> topic_cache],
                           after |-> [table |-> r.table, cache |-> r.cache]]
              /\ resolved' = IF returned /\ gets > 0
                             THEN (t.id :> CountOf(resolved, t.id) + 1) @@ resolved
                             ELSE resolved
              /\ rfirst' = IF returned /\ t.id \notin DOMAIN rfirst
                           THEN (t.id :> r.cache[t.id]) @@ rfirst
                           ELSE rfirst
              /\ rfailed' = IF r.called /\ ~returned THEN rfailed \cup {t.id} ELSE rfailed
    /\ rcount' = rcount + 1
    /\ UNCHANGED lastUpsert

TopicIdle ==
    /\ topics = EmptyObj
    /\ topic_cache = EmptyObj
    /\ lastUpsert = NoUpsert
    /\ tpc = "run"

----------------------------------------------------------------------------
(* Strings that the code inspects are sequences of characters.             *)

UpperLetters == <<"A", "B", "C", "D", "E", "F", "G", "H", "I", "J", "K", "L", "M", "N", "O", "P", "Q", "R", "S", "T", "U", "V", "W", "X", "Y", "Z">>

LowerLetters == <<"a", "b", "c", "d", "e", "f", "g", "h", "i", "j", "k", "l", "m", "n", "o", "p", "q", "r", "s", "t", "u", "v", "w", "x", "y", "z">>

LowerChar(c) ==
    IF \E i \in 1..Len(UpperLetters) : UpperLetters[i] = c
    THEN LowerLetters[CHOOSE i \in 1..Len(UpperLetters) : UpperLetters[i] = c]
    ELSE c

\* str.lower()
Lower(str) == [i \in 1..Len(str) |-> LowerChar(str[i])]

\* str.strip()
RECURSIVE Strip(_)
Strip(str) ==
    IF str = <<>> THEN str
    ELSE IF Head(str) = " " THEN Strip(Tail(str))
    ELSE IF str[Len(str)] = " " THEN Strip(SubSeq(str, 1, Len(str) - 1))
    ELSE str

\* sub in str
Contains(str, sub) ==
    \E i \in 0..(Len(str) - Len(sub)) : SubSeq(str, i + 1, i + Len(sub)) = sub

\* d.get(k) or "", of a string that the code inspects
GetText(d, k) == IF k \in DOMAIN d THEN d[k] ELSE <<>>

JOURNAL == <<"j", "o", "u", "r", "n", "a", "l">>

CONFERENCE == <<"c", "o", "n", "f", "e", "r", "e", "n", "c", "e">>

PROCEEDINGS == <<"p", "r", "o", "c", "e", "e", "d", "i", "n", "g", "s">>

OTHER_VENUE == <<"o", "t", "h", "e", "r">>

----------------------------------------------------------------------------
(* Venue classification (conf_jour_outputs)                                *)

\* classify_venue_type with the journal test moved before the conference test
classify_journal_first(work) ==
    LET pl == GetObj(work, "primary_location")
        src == GetObj(pl, "source")
        t == Strip(Lower(GetText(src, "type")))
        wt == Lower(GetText(work, "type"))
        tcr == Lower(GetText(work, "type_crossref"))
    IN  IF t \in {JOURNAL, CONFERENCE} THEN t
        ELSE IF Contains(tcr, JOURNAL) \/ Contains(wt, JOURNAL)
        THEN JOURNAL
        ELSE IF Contains(tcr, PROCEEDINGS) \/ Contains(wt, PROCEEDINGS)
                \/ Contains(tcr, CONFERENCE) \/ Contains(wt, CONFERENCE)
        THEN CONFERENCE
        ELSE OTHER_VENUE

\* def classify_venue_type(work)
classify_venue_type(work) ==
    LET pl == GetObj(work, "primary_location")
        src == GetObj(pl, "source")
        t == Strip(Lower(GetText(src, "type")))
        wt == Lower(GetText(work, "type"))
        tcr == Lower(GetText(work, "type_crossref"))
    IN  IF t \in {JOURNAL, CONFERENCE} THEN t
        ELSE IF Contains(tcr, PROCEEDINGS) \/ Contains(wt, PROCEEDINGS)
                \/ Contains(tcr, CONFERENCE) \/ Contains(wt, CONFERENCE)
        THEN CONFERENCE
        ELSE IF Contains(tcr, JOURNAL) \/ Contains(wt, JOURNAL)
        THEN JOURNAL
        ELSE OTHER_VENUE

\* The works classify_venue_type is called with in SpecVenue: every
\* combination of a source type, a type and a type_crossref, present or not,
\* with or without fields the function does not read.
SourceTypes ==
    {JOURNAL, CONFERENCE, <<"J", "o", "u", "r", "n", "a", "l">>, <<" ", "c", "o", "n", "f", "e", "r", "e", "n", "c", "e", " ">>, <<"C", "O", "N", "F", "E", "R", "E", "N", "C", "E">>,
     <<"b", "o", "o", "k", " ", "s", "e", "r", "i", "e", "s">>, <<"e", "b", "o", "o", "k", " ", "p", "l", "a", "t", "f", "o", "r", "m">>}

WorkTypes == {<<"a", "r", "t", "i", "c", "l", "e">>, <<"J", "o", "u", "r", "n", "a", "l", "-", "A", "r", "t", "i", "c", "l", "e">>, <<"p", "r", "o", "c", "e", "e", "d", "i", "n", "g", "s">>, <<"b", "o", "o", "k">>}

CrossrefTypes ==
    {<<"p", "r", "o", "c", "e", "e", "d", "i", "n", "g", "s", "-", "a", "r", "t", "i", "c", "l", "e">>, <<"j", "o", "u", "r", "n", "a", "l", "-", "a", "r", "t", "i", "c", "l", "e">>, <<"C", "o", "n", "f", "e", "r", "e", "n", "c", "e", "-", "P", "a", "p", "e", "r">>,
     <<"b", "o", "o", "k", "-", "c", "h", "a", "p", "t", "e", "r">>}

WithText(d, k, texts) == {d} \cup {(k :> x) @@ d : x \in texts}

VenueWorks ==
    UNION {WithText(w, "type_crossref", CrossrefTypes) :
        w \in UNION {WithText(v, "type", WorkTypes) :
            v \in {[id |-> "W1"],
                   [id |-> "W1", primary_location |-> [landing_page_url |-> "u"]],
                   [id |-> "W2", display_name |-> "A journal of conference proceedings",
                    primary_location |-> [source |-> [id |-> "S9"]]]}
                  \cup {[id |-> i, primary_location |-> [source |-> [type |-> x]]] :
                           i \in {"W1", "W2"}, x \in SourceTypes}}}

VenueIdle ==
    /\ cwork = EmptyObj
    /\ cresult = <<>>
    /\ cpc = "idle"

\* vt = classify_venue_type(w)
VenueCall ==
    /\ cpc \in {"idle", "returned"}
    /\ cwork' \in VenueWorks
    /\ cresult' = <<>>
    /\ cpc' = "called"

VenueReturn ==
    /\ cpc = "called"
    /\ cresult' = classify_venue_type(cwork)
    /\ cpc' = "returned"
    /\ UNCHANGED cwork

----------------------------------------------------------------------------
(* The SQLite store.  A table with a PRIMARY KEY is a function from the    *)
(* key to the row; a table with only a UNIQUE constraint is the sequence   *)
(* of its rows in insertion order.                                         *)

NUST_INST_ID == "I101993903"

ORCID_PREFIX == "https://orcid.org/"

\* str.replace("https://orcid.org/", ""), of an orcid given as its parts
StripOrcid(parts) == SelectSeq(parts, LAMBDA x : x # ORCID_PREFIX)

\* d.get(k) or [], of a list
GetSeq(d, k) == IF k \in DOMAIN d THEN d[k] ELSE <<>>

\* INSERT ... ON CONFLICT(key) DO UPDATE SET every column = excluded.column
InsertOrReplace(table, key, row) ==
    IF key \in DOMAIN table THEN [table EXCEPT ![key] = row] ELSE (key :> row) @@ table

InsertAlways(rows, row, keycols) == Append(rows, row)

\* INSERT OR IGNORE INTO a table with UNIQUE(keycols)
InsertOrIgnore(rows, row, keycols) ==
    IF \E i \in 1..Len(rows) : \A c \in keycols : rows[i][c] = row[c]
    THEN rows
    ELSE Append(rows, row)

\* def upsert_author(cur, a)
upsert_author(table, a) ==
    LET lkis == GetSeq(a, "last_known_institutions")
        inst_id == IF lkis # <<>> THEN GetStr(lkis[1], "id") ELSE None
        inst_nm == IF lkis # <<>> THEN GetStr(lkis[1], "display_name") ELSE None
    IN  InsertOrReplace(table, a.id,
            [display_name |-> IF HasKey(a, "display_name") THEN a.display_name ELSE "",
             orcid |-> StripOrcid(GetSeq(a, "orcid")),
             works_count |-> IF HasKey(a, "works_count") THEN a.works_count ELSE 0,
             last_known_institution_id |-> inst_id,
             last_known_institution_name |-> inst_nm])

\* def upsert_work(cur, w): works has a venue_type, works_2025 has none
upsert_work(s, table, w) ==
    LET base == [title |-> IF HasKey(w, "display_name") THEN w.display_name ELSE "",
                 publication_year |-> GetStr(w, "publication_year"),
                 doi |-> GetStr(w, "doi")]
    IN  InsertOrReplace(table, w.id,
            IF s = "conf_jour_outputs"
            THEN ("venue_type" :> classify_venue_type(w)) @@ base
            ELSE base)

\* the authors of w's authorships that have an id, in order
AuthorshipsWithId(w) ==
    SelectSeq(GetSeq(w, "authorships"), LAMBDA au : GetStr(GetObj(au, "author"), "id") # None)

\* is_nust = 1 if any(i.get("id") == NUST_INST_ID for i in insts) else 0
IsNust(au) ==
    LET insts == GetSeq(au, "institutions")
    IN  IF \E i \in 1..Len(insts) : GetStr(insts[i], "id") = NUST_INST_ID THEN 1 ELSE 0

\* the row upsert_fact (conf_jour_outputs) / attach_authorships (nust_authors)
\* inserts for one authorship of w
FactRow(s, w, au) ==
    IF s = "conf_jour_outputs"
    THEN [author_id |-> au.author.id, work_id |-> w.id,
          year |-> GetStr(w, "publication_year"), venue_type |-> classify_venue_type(w)]
    ELSE [author_id |-> au.author.id, work_id |-> w.id,
          author_position |-> GetStr(au, "author_position"), is_nust_affiliation |-> IsNust(au)]

\* def upsert_fact(cur, w) / def attach_authorships(cur, work_id, wk)
RECURSIVE InsertFacts(_, _, _, _)
InsertFacts(s, rows, w, aus) ==
    IF aus = <<>> THEN rows
    ELSE InsertFacts(s, InsertOrIgnore(rows, FactRow(s, w, Head(aus)), {"author_id", "work_id"}),
                     w, Tail(aus))

upsert_fact(s, rows, w) == InsertFacts(s, rows, w, AuthorshipsWithId(w))

\* attach_work_topics: the topic references it upserts and links, in order:
\* primary_topic if it is non-empty and has an id, then every such entry of topics
TopicsToAttach(wk) ==
    LET pt == GetObj(wk, "primary_topic")
        prim == IF TruthyObj(pt) /\ HasKey(pt, "id")
                THEN <<[t |-> pt, is_primary |-> 1]>> ELSE <<>>
        others == SelectSeq(GetSeq(wk, "topics"), LAMBDA t : TruthyObj(t) /\ HasKey(t, "id"))
    IN  prim \o [i \in 1..Len(others) |-> [t |-> others[i], is_primary |-> 0]]

InsertLinkAlways(rows, work_id, tid, t, is_primary) ==
    Append(rows, [work_id |-> work_id, topic_id |-> tid, score |-> GetStr(t, "score"),
                  is_primary |-> is_primary])

\* INSERT OR IGNORE INTO work_topics_2025(work_id, topic_id, score, is_primary)
InsertLink(rows, work_id, tid, t, is_primary) ==
    InsertOrIgnore(rows,
        [work_id |-> work_id, topic_id |-> tid, score |-> GetStr(t, "score"),
         is_primary |-> is_primary],
        {"work_id", "topic_id"})

----------------------------------------------------------------------------
(* Cursor pagination: iter_authors, iter_author_works_year,                *)
(* iter_author_works_2025.  The four generators share one loop; they       *)
(* differ in the URL and the filter they send.                             *)

Iterators(s) ==
    IF s = "conf_jour_outputs"
    THEN {"iter_authors", "iter_author_works_year"}
    ELSE {"iter_authors", "iter_author_works_2025"}

Url(kind) == IF kind = "iter_authors" THEN "AUTHORS_URL" ELSE "WORKS_URL"

\* data.get("results", [])
Results(body) == IF HasKey(body, "results") THEN body.results ELSE <<>>

\* data.get("meta", {}).get("next_cursor")
NextCursor(body) == GetStr(GetObj(body, "meta"), "next_cursor")

NotNxtNoneOnly(nxt) == nxt = None

\* `if not nxt`
NotNxt(nxt) == nxt = None \/ nxt = ""

FetchEvent(url, c, r) == [op |-> "FETCH", url |-> url, cursor |-> c, result |-> r.result, log |-> r.log]

PauseEvent == [op |-> "PAUSE", url |-> None, cursor |-> None, result |-> None, log |-> <<SleepEvent(PAGE_SLEEP)>>]

PagerIdle ==
    /\ iter = None
    /\ ipc = "idle"
    /\ cursor = None
    /\ data = EmptyObj
    /\ rest = <<>>
    /\ item = EmptyObj
    /\ served = <<>>
    /\ yielded = <<>>
    /\ plog = <<>>

\* The consumer's first next() on a new generator: params = {..., "cursor": "*"}
IterStart(kind) ==
    /\ ipc \in {"idle", "done", "raised"}
    /\ iter' = kind
    /\ ipc' = "fetch"
    /\ cursor' = "*"
    /\ data' = EmptyObj
    /\ rest' = <<>>
    /\ item' = EmptyObj
    /\ served' = <<>>
    /\ yielded' = <<>>
    /\ plog' = <<>>

\* resp = get_with_retry(URL, params); data = resp.json(): the server answers
\* with one of `answers`, each [feed: statuses, body: JSON of the 200].
IterFetch(answers) ==
    /\ ipc = "fetch"
    /\ \E ans \in answers :
       \E r \in {get_with_retry(script, ans.feed)} :
          /\ plog' = Append(plog, FetchEvent(Url(iter), cursor, r))
          /\ IF r.result = "returned"
             THEN /\ ipc' = "yield"
                  /\ data' = ans.body
                  /\ rest' = Results(ans.body)
                  /\ served' = Append(served, ans.body)
             ELSE /\ ipc' = "raised"
                  /\ UNCHANGED <<data, rest, served>>
    /\ UNCHANGED <<iter, cursor, item, yielded>>

\* for a in data.get("results", []): yield a
IterYield ==
    /\ ipc = "yield"
    /\ rest # <<>>
    /\ item' = Head(rest)
    /\ rest' = Tail(rest)
    /\ ipc' = "suspended"
    /\ UNCHANGED <<iter, cursor, data, served, yielded, plog>>

\* The consumer took `item` and calls next() again.
IterResume ==
    /\ ipc = "suspended"
    /\ yielded' = Append(yielded, item)
    /\ ipc' = "yield"
    /\ UNCHANGED <<iter, cursor, data, rest, item, served, plog>>

\* nxt = ...; if not nxt: break
IterStop ==
    /\ ipc = "yield"
    /\ rest = <<>>
    /\ NotNxt(NextCursor(data))
    /\ ipc' = "done"
    /\ UNCHANGED <<iter, cursor, data, rest, item, served, yielded, plog>>

\* params["cursor"] = nxt, with no time.sleep
IterAdvanceNoPause ==
    /\ ipc = "yield"
    /\ rest = <<>>
    /\ ~NotNxt(NextCursor(data))
    /\ cursor' = NextCursor(data)
    /\ ipc' = "fetch"
    /\ UNCHANGED <<iter, data, rest, item, served, yielded, plog>>

\* params["cursor"] = nxt; time.sleep(PAGE_SLEEP)
IterAdvance ==
    /\ ipc = "yield"
    /\ rest = <<>>
    /\ ~NotNxt(NextCursor(data))
    /\ cursor' = NextCursor(data)
    /\ plog' = Append(plog, PauseEvent)
    /\ ipc' = "fetch"
    /\ UNCHANGED <<iter, data, rest, item, served, yielded>>

\* The mock server of SpecPage: pages of at most MaxPageLen opaque records,
\* at most MaxPages of them, the last one without a usable next_cursor.
PageItems == {[id |-> "R1"], [id |-> "R2"]}

RECURSIVE SeqsUpTo(_, _)
SeqsUpTo(S, n) ==
    IF n = 0 THEN {<<>>}
    ELSE LET shorter == SeqsUpTo(S, n - 1)
         IN  shorter \cup {Append(q, x) : q \in {q \in shorter : Len(q) = n - 1}, x \in S}

Cursors == {"c1", "c2"}

LastPages(items) ==
    {[results |-> rs] : rs \in items}
    \cup {[results |-> rs, meta |-> [next_cursor |-> c]] : rs \in items, c \in {None, ""}}
    \cup {[results |-> rs, meta |-> EmptyObj] : rs \in items}
    \cup {[meta |-> [next_cursor |-> None]]}

InnerPages(items) ==
    {[results |-> rs, meta |-> [next_cursor |-> c]] : rs \in items, c \in Cursors}

PageFeeds == {<<200>>, <<503, 200>>, <<404>>}

MockAnswers ==
    {[feed |-> f, body |-> b] :
        f \in PageFeeds,
        b \in LastPages(SeqsUpTo(PageItems, MaxPageLen))
              \cup (IF Len(served) + 1 < MaxPages
                    THEN InnerPages(SeqsUpTo(PageItems, MaxPageLen)) ELSE {})}

\* A server that may go on answering with a next_cursor for ever, one it has
\* given before included.
RepeatingAnswers ==
    {[feed |-> f, body |-> b] :
        f \in PageFeeds,
        b \in LastPages(SeqsUpTo(PageItems, MaxPageLen))
              \cup InnerPages(SeqsUpTo(PageItems, MaxPageLen))}

\* The paginator's loop again, without the record of what it has fetched and
\* yielded so far (served, yielded, plog), which the code does not keep.
LoopFetch(answers) ==
    /\ ipc = "fetch"
    /\ \E ans \in answers :
       \E r \in {get_with_retry(script, ans.feed)} :
          IF r.result = "returned"
          THEN /\ ipc' = "yield"
               /\ data' = ans.body
               /\ rest' = Results(ans.body)
          ELSE /\ ipc' = "raised"
               /\ UNCHANGED <<data, rest>>
    /\ UNCHANGED <<iter, cursor, item, served, yielded, plog>>

LoopResume ==
    /\ ipc = "suspended"
    /\ ipc' = "yield"
    /\ UNCHANGED <<iter, cursor, data, rest, item, served, yielded, plog>>

LoopAdvance ==
    /\ ipc = "yield"
    /\ rest = <<>>
    /\ ~NotNxt(NextCursor(data))
    /\ cursor' = NextCursor(data)
    /\ ipc' = "fetch"
    /\ UNCHANGED <<iter, data, rest, item, served, yielded, plog>>

----------------------------------------------------------------------------
(* main(): the harvest                                                     *)

Tables == [authors |-> authors, works |-> works, facts |-> facts,
           topics |-> topics, links |-> links]

EmptyTables == [authors |-> EmptyObj, works |-> EmptyObj, facts |-> <<>>,
                topics |-> EmptyObj, links |-> <<>>]

\* con.commit()
Commit(t) == committed' = t

\* The process ends with a transaction open: SQLite rolls it back.
Rollback ==
    /\ authors' = committed.authors
    /\ works' = committed.works
    /\ facts' = committed.facts
    /\ topics' = committed.topics
    /\ links' = committed.links
    /\ observed' = [p \in {q \in DOMAIN observed : \E i \in 1..Len(committed.facts) :
                                q = <<committed.facts[i].author_id, committed.facts[i].work_id>>}
                        |-> observed[p]]
    /\ UNCHANGED committed

\* SELECT author_id FROM authors: SQLite scans the primary-key index, so the
\* ids come in the order of their text.
AuthorOrder == <<"A1", "A2", "A9">>

SelectAuthorIds(table) == SelectSeq(AuthorOrder, LAMBDA x : x \in DOMAIN table)

WorksIterator(s) ==
    IF s = "conf_jour_outputs" THEN "iter_author_works_year" ELSE "iter_author_works_2025"

FirstYear(s) == IF s = "conf_jour_outputs" THEN YEAR_START ELSE YEAR

LastYear(s) == IF s = "conf_jour_outputs" THEN YEAR_END ELSE YEAR

\* The upstream catalogue.  What it answers to a request is fixed the first
\* time the request is made and is the same whenever it is made again, in
\* this run or the next: the runs see one snapshot.
Au(aid) == [author |-> [id |-> aid], author_position |-> "first",
            institutions |-> <<[id |-> NUST_INST_ID]>>]

AuthorPayloads ==
    { [id |-> "A1", display_name |-> "Ann", orcid |-> <<ORCID_PREFIX, "0000-0001">>,
       works_count |-> 7,
       last_known_institutions |-> <<[id |-> NUST_INST_ID, display_name |-> "NUST"]>>],
      [id |-> "A2", display_name |-> "Bob", orcid |-> <<"0000-0002">>] }

WorkPayloads(s) ==
    IF s = "conf_jour_outputs"
    THEN { [id |-> "W1", display_name |-> "Paper1", publication_year |-> "2024",
            doi |-> "10.1/w1", authorships |-> <<Au("A1"), Au("A9")>>,
            primary_location |-> [source |-> [type |-> JOURNAL]],
            type |-> <<"a", "r", "t", "i", "c", "l", "e">>],
           [id |-> "W1", display_name |-> "Paper1", publication_year |-> "2025",
            doi |-> "10.1/w1", authorships |-> <<Au("A2"), Au("A1")>>,
            type |-> <<"a", "r", "t", "i", "c", "l", "e">>, type_crossref |-> <<"p", "r", "o", "c", "e", "e", "d", "i", "n", "g", "s", "-", "a", "r", "t", "i", "c", "l", "e">>],
           [id |-> "W2", display_name |-> "Paper2", publication_year |-> "2025",
            authorships |-> <<Au("A2"), [author_position |-> "last"]>>,
            primary_location |-> [source |-> [type |-> <<" ", "C", "o", "n", "f", "e", "r", "e", "n", "c", "e", " ">>]],
            type_crossref |-> <<"j", "o", "u", "r", "n", "a", "l", "-", "a", "r", "t", "i", "c", "l", "e">>] }
    ELSE { [id |-> "W1", display_name |-> "Paper1", publication_year |-> "2025",
            doi |-> "10.1/w1", authorships |-> <<Au("A1"), Au("A9")>>,
            primary_topic |-> [id |-> "T1", display_name |-> "Topic", score |-> "0.9",
                               field |-> Named("F1", "Field1")],
            topics |-> <<[id |-> "T1", display_name |-> "Topic", score |-> "0.9",
                          field |-> Named("F1", "Field1")],
                         [id |-> "T2", display_name |-> "Topic", score |-> "0.4",
                          subfield |-> Named("S1", "Subfield1"),
                          field |-> Named("F1", "Field1"),
                          domain |-> Named("D1", "Domain1")]>>],
           [id |-> "W1", display_name |-> "Paper1 (v2)", publication_year |-> "2025",
            authorships |-> <<Au("A2"), Au("A1")>>,
            primary_topic |-> [id |-> "T1", score |-> "0.5",
                               field |-> Named("F2", "Field2"),
                               domain |-> Named("D1", "Domain1")]],
           [id |-> "W2", display_name |-> "Paper2", publication_year |-> "2025",
            authorships |-> <<Au("A2"), [author_position |-> "last"]>>,
            topics |-> <<[display_name |-> "Topic"], [id |-> "T2", score |-> "0.7"]>>] }

Min(a, b) == IF a < b THEN a ELSE b

CursorOf(n) == IF n % 2 = 1 THEN "c1" ELSE "c2"

\* the pages that may be the n-th page of a listing; a page that is not the
\* last one has records
HarvestPages(items, n) ==
    {[results |-> rs, meta |-> [next_cursor |-> None]] : rs \in items}
    \cup (IF n < MaxPages
          THEN {[results |-> rs, meta |-> [next_cursor |-> CursorOf(n)]] :
                   rs \in {q \in items : q # <<>>}}
          ELSE {})

RECURSIVE SumOver(_, _)
SumOver(S, f) ==
    IF S = {} THEN 0
    ELSE LET x == CHOOSE y \in S : TRUE IN f[x] + SumOver(S \ {x}, f)

\* work records in the pages of the snapshot so far
Delivered ==
    LET reqs == {req \in DOMAIN upstream : req[1] = "works"}
    IN  SumOver(reqs, [req \in reqs |-> Len(Results(upstream[req].body))])

\* requests of the snapshot so far that end in a fetch error
Faults == Cardinality({req \in DOMAIN upstream : upstream[req].feed # <<200>>})

FailFeeds == {<<404>>, ExhaustingFeed}

Failures ==
    IF Faults < MaxFaults THEN {[feed |-> f, body |-> EmptyObj] : f \in FailFeeds} ELSE {}

HarvestTopicAnswers(tid) ==
    {a \in TopicAnswers(tid) : a.feed = <<200>> \/ Faults < MaxFaults}

AuthorAnswers ==
    Failures \cup
    {[feed |-> <<200>>, body |-> b] :
        b \in HarvestPages(SeqsUpTo(AuthorPayloads, MaxPageLen), Len(served) + 1)}

\* a year as the JSON of a payload carries it
YearText(y) ==
    IF y = 2023 THEN "2023" ELSE IF y = 2024 THEN "2024" ELSE IF y = 2025 THEN "2025" ELSE "other"

\* the works the filter authorships.author.id:aid,publication_year:y selects
WorksOf(s, aid, y) ==
    {w \in WorkPayloads(s) :
        /\ GetStr(w, "publication_year") = YearText(y)
        /\ \E i \in 1..Len(AuthorshipsWithId(w)) : AuthorshipsWithId(w)[i].author.id = aid}

WorkAnswers ==
    Failures \cup
    {[feed |-> <<200>>, body |-> b] :
        b \in HarvestPages(SeqsUpTo(WorksOf(script, author_ids[ai], yr),
                                    Min(MaxPageLen, MaxWorks - Delivered)),
                           Len(served) + 1)}

\* the request a paginator is about to make
PageRequest ==
    IF iter = "iter_authors"
    THEN <<"authors", "-", 0, cursor, 0>>
    ELSE <<"works", author_ids[ai], yr, cursor, 0>>

TopicRequest(tid) ==
    <<"topics", tid, 0, "-", (IF tid \in DOMAIN tcalls THEN tcalls[tid] ELSE 0) + 1>>

\* what the snapshot answers to request `req`: as before if the request was
\* made before, else any of `fresh`
Snapshot(req, fresh) == IF req \in DOMAIN upstream THEN {upstream[req]} ELSE fresh

Learn(req, ans) ==
    upstream' = IF req \in DOMAIN upstream THEN upstream ELSE (req :> ans) @@ upstream

\* main(): init_db (CREATE TABLE IF NOT EXISTS: the tables keep their rows),
\* then `for a in iter_authors()` starts the generator.
MainStart ==
    /\ hpc = "start"
    /\ ipc = "idle"
    /\ IterStart("iter_authors")
    /\ hpc' = "authors"
    /\ UNCHANGED <<run, author_ids, ai, yr, author_count, seen_works, todo, link_tid,
                   warnings, upstream, tcalls, observed, after1>>
    /\ UNCHANGED <<xvars, script, fvars, tvars, dbvars>>

\* The answers of the snapshot in SpecConverge: the first run gets the
\* bodies at the first GET; a later run gets the same bodies after some
\* transient statuses, fewer than exhaust the retries.
TransientFeeds ==
    {<<503, 200>>, <<429, 502, 200>>, [i \in 1..(RETRY_MAX + 1) |-> IF i <= RETRY_MAX THEN 504 ELSE 200]}

Retried(answers) ==
    LET clean == {a \in answers : a.feed = <<200>>}
    IN  IF run = 1 THEN clean
        ELSE {[a EXCEPT !.feed = f] : a \in clean, f \in TransientFeeds}

\* iter_authors / iter_author_works_*: resp = get_with_retry(...), handed
\* the answers of the snapshot as they are, or behind transient statuses
Transport(retried, answers) == IF retried THEN Retried(answers) ELSE answers

MainFetchWith(retried, fresh) ==
    /\ hpc \in {"authors", "works"}
    /\ \E ans \in Transport(retried, Snapshot(PageRequest, fresh)) :
          /\ IterFetch({ans})
          /\ Learn(PageRequest, ans)
    /\ UNCHANGED <<hpc, run, author_ids, ai, yr, author_count, seen_works, todo, link_tid,
                   warnings, tcalls, observed, after1>>
    /\ UNCHANGED <<xvars, script, fvars, tvars, dbvars>>

MainFetchFrom(fresh) == MainFetchWith(FALSE, fresh)

MainFetch == MainFetchFrom(IF hpc = "authors" THEN AuthorAnswers ELSE WorkAnswers)

MainFetchRetried == MainFetchWith(TRUE, IF hpc = "authors" THEN AuthorAnswers ELSE WorkAnswers)

\* the author listing of SpecListing: up to MaxListingPages pages
LongAuthorAnswers ==
    Failures \cup
    {[feed |-> <<200>>, body |-> b] :
        b \in LET items == SeqsUpTo(AuthorPayloads, MaxPageLen)
                  n == Len(served) + 1
              IN  {[results |-> rs, meta |-> [next_cursor |-> None]] : rs \in items}
                  \cup (IF n < MaxListingPages
                        THEN {[results |-> rs, meta |-> [next_cursor |-> CursorOf(n)]] :
                                 rs \in items}
                        ELSE {})}

\* the generator yields the next record of the page
MainYield ==
    /\ hpc \in {"authors", "works"}
    /\ IterYield
    /\ UNCHANGED <<xvars, script, fvars, tvars, dbvars, hvars>>

\* the generator moves to the next page
MainAdvance ==
    /\ hpc \in {"authors", "works"}
    /\ IterAdvance
    /\ UNCHANGED <<xvars, script, fvars, tvars, dbvars, hvars>>

\* the generator ends
MainStop ==
    /\ hpc \in {"authors", "works"}
    /\ IterStop
    /\ UNCHANGED <<xvars, script, fvars, tvars, dbvars, hvars>>

\* for a in iter_authors(): upsert_author(cur, a); ...; if count % 500 == 0: con.commit()
AuthorBody ==
    /\ hpc = "authors"
    /\ ipc = "suspended"
    /\ authors' = upsert_author(authors, item)
    /\ author_ids' = IF script = "conf_jour_outputs" THEN Append(author_ids, item.id)
                     ELSE author_ids
    /\ author_count' = author_count + 1
    /\ IF (author_count + 1) % COMMIT_EVERY = 0
       THEN Commit([Tables EXCEPT !.authors = authors'])
       ELSE UNCHANGED committed
    /\ IterResume
    /\ UNCHANGED <<works, facts, links>>
    /\ UNCHANGED <<hpc, run, ai, yr, seen_works, todo, link_tid,
                   warnings, upstream, tcalls, observed, after1>>
    /\ UNCHANGED <<xvars, script, fvars, tvars>>

\* the author loop has ended: con.commit(); nust_authors then reads
\* author_ids back from the table
AuthorsDone ==
    /\ hpc = "authors"
    /\ ipc = "done"
    /\ Commit(Tables)
    /\ author_ids' = IF script = "conf_jour_outputs" THEN author_ids
                     ELSE SelectAuthorIds(authors)
    /\ ai' = 1
    /\ yr' = FirstYear(script)
    /\ hpc' = "per_author"
    /\ UNCHANGED <<authors, works, facts, links>>
    /\ UNCHANGED <<run, author_count, seen_works, todo, link_tid,
                   warnings, upstream, tcalls, observed, after1>>
    /\ UNCHANGED <<xvars, script, fvars, tvars, pvars>>

\* r.HTTPError leaves iter_authors and main(): __main__ prints and re-raises
AuthorsFailed ==
    /\ hpc = "authors"
    /\ ipc = "raised"
    /\ Rollback
    /\ hpc' = "aborted"
    /\ UNCHANGED <<run, author_ids, ai, yr, author_count, seen_works, todo, link_tid,
                   warnings, upstream, tcalls, after1>>
    /\ UNCHANGED <<xvars, script, fvars, topic_cache, lastUpsert, tpc, pvars>>

\* for aid in author_ids: (for yr in range(...):) try: for w in iter_author_works_*(aid...)
BeginWorks ==
    /\ hpc = "per_author"
    /\ ai <= Len(author_ids)
    /\ IterStart(WorksIterator(script))
    /\ hpc' = "works"
    /\ UNCHANGED <<run, author_ids, ai, yr, author_count, seen_works, todo, link_tid,
                   warnings, upstream, tcalls, observed, after1>>
    /\ UNCHANGED <<xvars, script, fvars, tvars, dbvars>>

\* the next (aid, yr) of the two nested loops / the next aid
NextAuthorYear ==
    /\ ai' = IF yr < LastYear(script) THEN ai ELSE ai + 1
    /\ yr' = IF yr < LastYear(script) THEN yr + 1 ELSE FirstYear(script)

\* upsert_work(cur, w) on a connection in autocommit mode
WorkUpsertCommits ==
    /\ hpc = "works"
    /\ ipc = "suspended"
    /\ works' = upsert_work(script, works, item)
    /\ Commit([Tables EXCEPT !.works = works'])
    /\ hpc' = "facts"
    /\ UNCHANGED <<authors, facts, links>>
    /\ UNCHANGED <<run, author_ids, ai, yr, author_count, seen_works, todo, link_tid,
                   warnings, upstream, tcalls, observed, after1>>
    /\ UNCHANGED <<xvars, script, fvars, tvars, pvars>>

\* upsert_work(cur, w)
WorkUpsert ==
    /\ hpc = "works"
    /\ ipc = "suspended"
    /\ works' = upsert_work(script, works, item)
    /\ hpc' = "facts"
    /\ UNCHANGED <<authors, facts, links, committed>>
    /\ UNCHANGED <<run, author_ids, ai, yr, author_count, seen_works, todo, link_tid,
                   warnings, upstream, tcalls, observed, after1>>
    /\ UNCHANGED <<xvars, script, fvars, tvars, pvars>>

\* how many times each (author id, work id) pair has been observed, once
\* the authorships of payload w are counted in
Observe(seen, w) ==
    LET aus == AuthorshipsWithId(w)
        new == {<<aus[i].author.id, w.id>> : i \in 1..Len(aus)}
    IN  [p \in DOMAIN seen \cup new |->
            (IF p \in DOMAIN seen THEN seen[p] ELSE 0)
            + Cardinality({i \in 1..Len(aus) : <<aus[i].author.id, w.id>> = p})]

\* upsert_fact(cur, w) / attach_authorships(cur, wid, wk)
WorkFacts ==
    /\ hpc = "facts"
    /\ facts' = upsert_fact(script, facts, item)
    /\ observed' = Observe(observed, item)
    /\ todo' = IF script = "nust_authors" THEN TopicsToAttach(item) ELSE <<>>
    /\ hpc' = "topics"
    /\ UNCHANGED <<authors, works, links, committed>>
    /\ UNCHANGED <<run, author_ids, ai, yr, author_count, seen_works, link_tid,
                   warnings, upstream, tcalls, after1>>
    /\ UNCHANGED <<xvars, script, fvars, tvars, pvars>>

\* attach_work_topics: tid = upsert_topic(cur, t).  sqlite3.IntegrityError is
\* not an r.HTTPError: nothing catches it and the process ends.
TopicUpsertWith(retried) ==
    /\ hpc = "topics"
    /\ todo # <<>>
    /\ LET t == Head(todo).t
           req == TopicRequest(t.id)
       IN  \E ans \in IF WillFetchTopic(topic_cache, t)
                      THEN Transport(retried, Snapshot(req, HarvestTopicAnswers(t.id)))
                      ELSE {NoAnswer} :
           \E r \in {upsert_topic(topics, topic_cache, t, ans)} :
              /\ topic_cache' = r.cache
              /\ IF WillFetchTopic(topic_cache, t)
                 THEN /\ Learn(req, ans)
                      /\ tcalls' = (t.id :> req[5]) @@ tcalls
                 ELSE UNCHANGED <<upstream, tcalls>>
              /\ lastUpsert' =
                    IF r.inserted
                    THEN [tid |-> r.ret, nulls |-> NullColumns(r.values),
                          conflict |-> r.ret \in DOMAIN topics]
                    ELSE lastUpsert
              /\ IF r.error
                 THEN /\ Rollback
                      /\ hpc' = "crashed"
                      /\ UNCHANGED link_tid
                 ELSE /\ topics' = r.table
                      /\ hpc' = "link"
                      /\ link_tid' = r.ret
                      /\ UNCHANGED <<authors, works, facts, links, committed, observed>>
    /\ UNCHANGED <<run, author_ids, ai, yr, author_count, seen_works, todo,
                   warnings, after1>>
    /\ UNCHANGED <<xvars, script, fvars, tpc, pvars>>

TopicUpsert == TopicUpsertWith(FALSE)

TopicUpsertRetried == TopicUpsertWith(TRUE)

\* attach_work_topics: INSERT OR IGNORE INTO work_topics_2025
TopicLink ==
    /\ hpc = "link"
    /\ links' = InsertLink(links, item.id, link_tid, Head(todo).t, Head(todo).is_primary)
    /\ todo' = Tail(todo)
    /\ hpc' = "topics"
    /\ UNCHANGED <<authors, works, facts, committed>>
    /\ UNCHANGED <<run, author_ids, ai, yr, author_count, seen_works, link_tid,
                   warnings, upstream, tcalls, observed, after1>>
    /\ UNCHANGED <<xvars, script, fvars, tvars, pvars>>

\* if wid not in seen_works: seen_works.add(wid); then the loop asks the
\* generator for the next work
WorkSeen ==
    /\ hpc = "topics"
    /\ todo = <<>>
    /\ seen_works' = seen_works \cup {item.id}
    /\ IterResume
    /\ hpc' = "works"
    /\ UNCHANGED <<run, author_ids, ai, yr, author_count, todo, link_tid,
                   warnings, upstream, tcalls, observed, after1>>
    /\ UNCHANGED <<xvars, script, fvars, tvars, dbvars>>

\* the works of (aid, yr) are exhausted: con.commit()
WorksDone ==
    /\ hpc = "works"
    /\ ipc = "done"
    /\ Commit(Tables)
    /\ NextAuthorYear
    /\ hpc' = "per_author"
    /\ UNCHANGED <<authors, works, facts, links>>
    /\ UNCHANGED <<run, author_ids, author_count, seen_works, todo, link_tid,
                   warnings, upstream, tcalls, observed, after1>>
    /\ UNCHANGED <<xvars, script, fvars, tvars, pvars>>

WorksFailedAborts ==
    /\ hpc = "works"
    /\ ipc = "raised"
    /\ Rollback
    /\ hpc' = "aborted"
    /\ UNCHANGED <<run, author_ids, ai, yr, author_count, seen_works, todo, link_tid,
                   warnings, upstream, tcalls, after1>>
    /\ UNCHANGED <<xvars, script, fvars, topic_cache, lastUpsert, tpc, pvars>>

\* except r.HTTPError: print("Warning: ..."); continue
WorksFailed ==
    /\ hpc = "works"
    /\ ipc = "raised"
    /\ warnings' = warnings \cup {<<author_ids[ai], yr>>}
    /\ NextAuthorYear
    /\ hpc' = "per_author"
    /\ UNCHANGED <<run, author_ids, author_count, seen_works, todo, link_tid,
                   upstream, tcalls, observed, after1>>
    /\ UNCHANGED <<xvars, script, fvars, tvars, pvars, dbvars>>

\* after the loops: con.commit(); con.close()
Finalize ==
    /\ hpc = "per_author"
    /\ ai > Len(author_ids)
    /\ Commit(Tables)
    /\ hpc' = "done"
    /\ UNCHANGED <<authors, works, facts, links>>
    /\ UNCHANGED <<run, author_ids, ai, yr, author_count, seen_works, todo, link_tid,
                   warnings, upstream, tcalls, observed, after1>>
    /\ UNCHANGED <<xvars, script, fvars, tvars, pvars>>

\* main() is run again against the same snapshot and the same database file:
\* by a new process (an empty _topic_cache), or, after a run that returned,
\* by the same one.
RunAgain ==
    /\ hpc \in {"done", "aborted", "crashed"}
    /\ run < NumRuns
    /\ run' = run + 1
    /\ after1' = IF run = 1 THEN Tables ELSE after1
    /\ \E same_process \in IF hpc = "done" THEN BOOLEAN ELSE {FALSE} :
          topic_cache' = IF same_process THEN topic_cache ELSE EmptyObj
    /\ hpc' = "start"
    /\ author_ids' = <<>>
    /\ ai' = 0
    /\ yr' = 0
    /\ author_count' = 0
    /\ seen_works' = {}
    /\ todo' = <<>>
    /\ link_tid' = None
    /\ warnings' = {}
    /\ tcalls' = EmptyObj
    /\ iter' = None
    /\ ipc' = "idle"
    /\ cursor' = None
    /\ data' = EmptyObj
    /\ rest' = <<>>
    /\ item' = EmptyObj
    /\ served' = <<>>
    /\ yielded' = <<>>
    /\ plog' = <<>>
    /\ UNCHANGED <<upstream, observed>>
    /\ UNCHANGED <<xvars, script, fvars, topics, lastUpsert, tpc, dbvars>>

\* main() is run again against the same snapshot, by a new process and with
\* a new, empty database file.
RunAfresh ==
    /\ hpc \in {"done", "aborted", "crashed"}
    /\ run < NumRuns
    /\ run' = run + 1
    /\ after1' = IF run = 1 THEN Tables ELSE after1
    /\ authors' = EmptyObj
    /\ works' = EmptyObj
    /\ facts' = <<>>
    /\ links' = <<>>
    /\ topics' = EmptyObj
    /\ committed' = EmptyTables
    /\ observed' = EmptyObj
    /\ topic_cache' = EmptyObj
    /\ hpc' = "start"
    /\ author_ids' = <<>>
    /\ ai' = 0
    /\ yr' = 0
    /\ author_count' = 0
    /\ seen_works' = {}
    /\ todo' = <<>>
    /\ link_tid' = None
    /\ warnings' = {}
    /\ tcalls' = EmptyObj
    /\ iter' = None
    /\ ipc' = "idle"
    /\ cursor' = None
    /\ data' = EmptyObj
    /\ rest' = <<>>
    /\ item' = EmptyObj
    /\ served' = <<>>
    /\ yielded' = <<>>
    /\ plog' = <<>>
    /\ UNCHANGED upstream
    /\ UNCHANGED <<xvars, script, fvars, lastUpsert, tpc>>

MainIdle ==
    /\ authors = EmptyObj
    /\ works = EmptyObj
    /\ facts = <<>>
    /\ links = <<>>
    /\ committed = EmptyTables
    /\ hpc = "start"
    /\ run = 1
    /\ author_ids = <<>>
    /\ ai = 0
    /\ yr = 0
    /\ author_count = 0
    /\ seen_works = {}
    /\ todo = <<>>
    /\ link_tid = None
    /\ warnings = {}
    /\ upstream = EmptyObj
    /\ tcalls = EmptyObj
    /\ observed = EmptyObj
    /\ after1 = EmptyTables

----------------------------------------------------------------------------
(* Specifications: the harvest, run NumRuns times (Spec); get_with_retry   *)
(* alone (SpecFetch); upsert_topic alone (SpecTopic); one paginator        *)
(* against a mock server (SpecPage)                                        *)

FetchInit ==
    /\ script \in Scripts
    /\ FetchIdle
    /\ TopicIdle
    /\ PagerIdle
    /\ MainIdle
    /\ VenueIdle
    /\ ResolveIdle

FetchNext ==
    \/ FetchCall /\ UNCHANGED <<tvars, pvars, dbvars, hvars, xvars>>
    \/ FetchGet /\ UNCHANGED <<tvars, pvars, dbvars, hvars, xvars>>
    \/ FetchReturn /\ UNCHANGED <<tvars, pvars, dbvars, hvars, xvars>>
    \/ FetchReject /\ UNCHANGED <<tvars, pvars, dbvars, hvars, xvars>>
    \/ FetchExhaust /\ UNCHANGED <<tvars, pvars, dbvars, hvars, xvars>>
    \/ FetchRetry /\ UNCHANGED <<tvars, pvars, dbvars, hvars, xvars>>

TopicInit ==
    /\ script = "nust_authors"
    /\ FetchIdle
    /\ TopicIdle
    /\ PagerIdle
    /\ MainIdle
    /\ VenueIdle
    /\ ResolveIdle

TopicNext == UpsertTopicCall /\ UNCHANGED <<xvars, script, fvars, pvars, dbvars, hvars>>

PageInit ==
    /\ script \in Scripts
    /\ FetchIdle
    /\ TopicIdle
    /\ PagerIdle
    /\ MainIdle
    /\ VenueIdle
    /\ ResolveIdle

PageNext ==
    \/ \E kind \in Iterators(script) : ipc = "idle" /\ IterStart(kind) /\ UNCHANGED <<xvars, script, fvars, tvars, dbvars, hvars>>
    \/ IterFetch(MockAnswers) /\ UNCHANGED <<xvars, script, fvars, tvars, dbvars, hvars>>
    \/ IterYield /\ UNCHANGED <<xvars, script, fvars, tvars, dbvars, hvars>>
    \/ IterResume /\ UNCHANGED <<xvars, script, fvars, tvars, dbvars, hvars>>
    \/ IterStop /\ UNCHANGED <<xvars, script, fvars, tvars, dbvars, hvars>>
    \/ IterAdvance /\ UNCHANGED <<xvars, script, fvars, tvars, dbvars, hvars>>

ResolveNext ==
    \/ ResolveCall /\ UNCHANGED <<cvars, script, fvars, pvars, dbvars, hvars>>
    \/ UpsertCall /\ UNCHANGED <<cvars, script, fvars, pvars, dbvars, hvars>>

VenueNext ==
    \/ VenueCall /\ UNCHANGED <<rvars, script, fvars, tvars, pvars, dbvars, hvars>>
    \/ VenueReturn /\ UNCHANGED <<rvars, script, fvars, tvars, pvars, dbvars, hvars>>

\* main() with every fetch answered by a 200 in the end
ConvergeNext ==
    \/ MainStart
    \/ MainFetchRetried
    \/ MainYield
    \/ MainAdvance
    \/ MainStop
    \/ AuthorBody
    \/ AuthorsDone
    \/ BeginWorks
    \/ WorkUpsert
    \/ WorkFacts
    \/ TopicUpsertRetried
    \/ TopicLink
    \/ WorkSeen
    \/ WorksDone
    \/ Finalize
    \/ RunAfresh

\* main() up to the end of the author loop
ListingNext ==
    \/ MainStart
    \/ hpc = "authors" /\ MainFetchFrom(LongAuthorAnswers)
    \/ hpc = "authors" /\ MainYield
    \/ hpc = "authors" /\ MainAdvance
    \/ hpc = "authors" /\ MainStop
    \/ AuthorBody
    \/ AuthorsDone
    \/ AuthorsFailed

LoopNext ==
    \/ \E kind \in Iterators(script) : ipc = "idle" /\ IterStart(kind) /\ UNCHANGED <<xvars, script, fvars, tvars, dbvars, hvars>>
    \/ LoopFetch(RepeatingAnswers) /\ UNCHANGED <<xvars, script, fvars, tvars, dbvars, hvars>>
    \/ IterYield /\ UNCHANGED <<xvars, script, fvars, tvars, dbvars, hvars>>
    \/ LoopResume /\ UNCHANGED <<xvars, script, fvars, tvars, dbvars, hvars>>
    \/ IterStop /\ UNCHANGED <<xvars, script, fvars, tvars, dbvars, hvars>>
    \/ LoopAdvance /\ UNCHANGED <<xvars, script, fvars, tvars, dbvars, hvars>>

Init ==
    /\ script \in Scripts
    /\ FetchIdle
    /\ TopicIdle
    /\ PagerIdle
    /\ MainIdle
    /\ VenueIdle
    /\ ResolveIdle

Next ==
    \/ MainStart
    \/ MainFetch
    \/ MainYield
    \/ MainAdvance
    \/ MainStop
    \/ AuthorBody
    \/ AuthorsDone
    \/ AuthorsFailed
    \/ BeginWorks
    \/ WorkUpsert
    \/ WorkFacts
    \/ TopicUpsert
    \/ TopicLink
    \/ WorkSeen
    \/ WorksDone
    \/ WorksFailed
    \/ Finalize
    \/ RunAgain

vars == <<script, fvars, tvars, pvars, dbvars, hvars, xvars>>

Spec == Init /\ [][Next]_vars

SpecFetch == FetchInit /\ [][FetchNext]_vars

SpecTopic == TopicInit /\ [][TopicNext]_vars

SpecPage == PageInit /\ [][PageNext]_vars

SpecResolve == TopicInit /\ [][ResolveNext]_vars

SpecVenue == Init /\ [][VenueNext]_vars

SpecConverge == Init /\ [][ConvergeNext]_vars

SpecListing == Init /\ [][ListingNext]_vars

\* The consumer keeps asking for the next record and every request is
\* answered: each step of the loop that can be taken is taken.
SpecLoop == PageInit /\ [][LoopNext]_vars /\ WF_vars(LoopNext)

----------------------------------------------------------------------------
(* Properties of get_with_retry (checked under SpecFetch)                  *)

\* the transient statuses as the specification enumerates them
StatedTransient(status) == status \in {429, 500, 502, 503, 504}

FetchFinished == fpc \in {"returned", "rejected", "exhausted"}

Gets(log) == SelectSeq(log, LAMBDA e : e.op = "GET")

Sleeps(log) == SelectSeq(log, LAMBDA e : e.op = "SLEEP")

AllTransient(log) == \A i \in 1..Len(log) : log[i].op = "GET" => StatedTransient(log[i].arg)

RECURSIVE Pow(_, _)
Pow(b, n) == IF n = 0 THEN 1 ELSE b * Pow(b, n - 1)

\* base * RETRY_BACKOFF^(i-1), the i-th sleep the spec prescribes
ExpectedSleep(s, i) == (BaseDelay(s) \div Pow(BackoffDen, i - 1)) * Pow(BackoffNum, i - 1)

\* The step actions and the closed form of the loop agree on every finished call.
FetchAgreesWithLoop ==
    FetchFinished =>
        LET feed == [i \in 1..Len(Gets(flog)) |-> Gets(flog)[i].arg]
            r == get_with_retry(script, feed)
        IN  r.result = fpc /\ r.log = flog

\* C7 as stated: counting every HTTP GET as one attempt, one call of
\* get_with_retry issues at most RETRY_MAX GETs.
C7_AtMostRetryMaxGets == Len(Gets(flog)) <= RETRY_MAX

\* C7 as amended: one call issues at most RETRY_MAX + 1 GETs and RETRY_MAX
\* sleeps (RETRY_MAX retries after the first GET); a call whose answers are all
\* transient ends, after exactly RETRY_MAX + 1 GETs and RETRY_MAX sleeps, by
\* raising 'Retries exceeded', and only such a call raises it; an unfinished
\* call can always take its next step.
C7_BoundedRetry ==
    /\ Len(Gets(flog)) <= RETRY_MAX + 1
    /\ Len(Sleeps(flog)) <= RETRY_MAX
    /\ tries <= RETRY_MAX + 1
    /\ (FetchFinished /\ AllTransient(flog)) => fpc = "exhausted"
    /\ fpc = "exhausted" =>
          /\ AllTransient(flog)
          /\ Len(Gets(flog)) = RETRY_MAX + 1
          /\ Len(Sleeps(flog)) = RETRY_MAX
    /\ fpc \in {"get", "resp"} => ENABLED FetchNext

C7_Witness ==
    /\ fpc = "exhausted"
    /\ Len(Gets(flog)) = RETRY_MAX + 1
    /\ calls = MaxCalls

NonTransientFailure(status) == status # 200 /\ ~StatedTransient(status)

C8_WitnessAfterRetries ==
    /\ fpc = "rejected"
    /\ Len(Gets(flog)) = 3
    /\ flog[Len(flog)].arg = 403

\* C9: a call answered by k transient statuses and then 200 (k < RETRY_MAX,
\* and k = RETRY_MAX as well) returns after exactly k+1 GETs and k sleeps; GETs
\* and sleeps alternate, so each GET after the first is preceded by exactly one
\* sleep; the i-th sleep lasts base * RETRY_BACKOFF^(i-1), so the sleeps
\* strictly increase; this holds of every call, the delay and the counter
\* starting fresh.
C9_BackoffSchedule ==
    /\ \A i \in 1..Len(flog) :
          /\ flog[i].op = (IF i % 2 = 1 THEN "GET" ELSE "SLEEP")
          /\ flog[i].op = "SLEEP" =>
                /\ flog[i].arg = ExpectedSleep(script, i \div 2)
                /\ StatedTransient(flog[i - 1].arg)
                /\ i > 2 => flog[i - 2].arg < flog[i].arg
    /\ (fpc = "resp" /\ resp = 200) =>
          /\ ENABLED FetchReturn
          /\ ~ENABLED FetchRetry /\ ~ENABLED FetchReject /\ ~ENABLED FetchExhaust
    /\ fpc = "returned" =>
          LET k == Len(Gets(flog)) - 1
          IN  /\ k \in 0..RETRY_MAX
              /\ Gets(flog)[k + 1].arg = 200
              /\ \A j \in 1..k : StatedTransient(Gets(flog)[j].arg)
              /\ Len(Sleeps(flog)) = k
              /\ Len(flog) = 2 * k + 1
              /\ tries = k

C9_Witness ==
    /\ fpc = "returned"
    /\ calls = MaxCalls
    /\ Len(Sleeps(flog)) = RETRY_MAX - 1
    /\ Sleeps(flog)[1].arg = BaseDelay(script)
    /\ Sleeps(flog)[2].arg > Sleeps(flog)[1].arg

----------------------------------------------------------------------------
(* Properties of the paginators (checked under SpecPage)                   *)

RECURSIVE Flatten(_)
Flatten(pages) ==
    IF pages = <<>> THEN <<>>
    ELSE (IF "results" \in DOMAIN Head(pages) THEN Head(pages).results ELSE <<>>)
         \o Flatten(Tail(pages))

\* next_cursor of a served page, None when meta or the key is absent
ServedCursor(body) ==
    IF "meta" \in DOMAIN body /\ "next_cursor" \in DOMAIN body.meta
    THEN body.meta.next_cursor ELSE None

EmptyCursor(c) == c = None \/ c = ""

PageFetches == SelectSeq(plog, LAMBDA e : e.op = "FETCH")

\* C10: against pages of which only the last has an absent or empty
\* next_cursor, a paginator started at '*' hands the consumer the pages'
\* results in page order, nothing dropped or repeated; it requests page k+1
\* with the next_cursor of page k; it fetches each page once; and after the
\* last page it stops, with no further fetch.
C10_Pagination ==
    /\ ipc \in {"fetch", "yield", "suspended", "done"} =>
          /\ yielded \o (IF ipc = "suspended" THEN <<item>> ELSE <<>>) \o rest
                = Flatten(served)
          /\ Len(PageFetches) = Len(served)
          /\ \A k \in 1..Len(PageFetches) :
                /\ PageFetches[k].result = "returned"
                /\ PageFetches[k].url = (IF iter = "iter_authors" THEN "AUTHORS_URL" ELSE "WORKS_URL")
                /\ PageFetches[k].cursor = (IF k = 1 THEN "*" ELSE ServedCursor(served[k - 1]))
          /\ \A k \in 1..(Len(served) - 1) : ~EmptyCursor(ServedCursor(served[k]))
          /\ (ipc = "fetch" /\ served # <<>>) => ~EmptyCursor(ServedCursor(served[Len(served)]))
    /\ ipc = "done" =>
          /\ yielded = Flatten(served)
          /\ served # <<>>
          /\ EmptyCursor(ServedCursor(served[Len(served)]))
          /\ Len(PageFetches) = Len(served)
          /\ ~ENABLED IterFetch(MockAnswers)
          /\ ~ENABLED IterYield
          /\ ~ENABLED IterAdvance

C10_Witness ==
    /\ ipc = "done"
    /\ Len(served) = MaxPages
    /\ Len(yielded) = MaxPages * MaxPageLen
    /\ yielded[1] # yielded[Len(yielded)]
    /\ ServedCursor(served[Len(served)]) = ""

----------------------------------------------------------------------------
(* Properties of upsert_topic (checked under SpecTopic)                    *)

StatedHierarchy == {"subfield_id", "subfield", "field_id", "field", "domain_id", "domain"}

\* C5: once a hierarchy column of a topic row is non-null it is non-null in
\* every later state: no upsert_topic call, whatever its payload and its
\* enrichment carry, erases it (or removes the row).
C5_NoRegressionToNull ==
    [][\A tid \in DOMAIN topics : \A c \in StatedHierarchy :
          topics[tid][c] # None => (tid \in DOMAIN topics' /\ topics'[tid][c] # None)]_vars

\* an upsert that conflicted and carried NULL for a column the row still has
C5_Witness ==
    /\ lastUpsert.conflict
    /\ \E c \in lastUpsert.nulls \cap StatedHierarchy : topics[lastUpsert.tid][c] # None

\* C6: on conflict each hierarchy column keeps its stored value if that value
\* is non-null: a stored non-null value is never replaced by a different one.
C6_KeepExisting ==
    [][\A tid \in DOMAIN topics : \A c \in StatedHierarchy :
          topics[tid][c] # None => (tid \in DOMAIN topics' /\ topics'[tid][c] = topics[tid][c])]_vars

----------------------------------------------------------------------------
(* The store of the harvest                                                *)

Finished == hpc \in {"done", "aborted", "crashed"}

RowsFor(rows, aid, wid) ==
    {i \in 1..Len(rows) : rows[i].author_id = aid /\ rows[i].work_id = wid}

FactsRefer(t) ==
    \A i \in 1..Len(t.facts) :
        /\ t.facts[i].author_id \in DOMAIN t.authors
        /\ t.facts[i].work_id \in DOMAIN t.works

\* C2: every row of the authorship fact table names an author that is in the
\* authors table and a work that is in the works table.  The code inserts a
\* fact row for every authorship of a work that has an author id, and only
\* the listed authors are in the authors table: the row of a co-author who is
\* not a listed author refers to no author.
C2_FactsReferToStoredRows == FactsRefer(Tables) /\ FactsRefer(committed)

LinksRefer(t) ==
    \A i \in 1..Len(t.links) :
        /\ t.links[i].work_id \in DOMAIN t.works
        /\ t.links[i].topic_id \in DOMAIN t.topics

\* C3: in every state of the store, between any two statements of main() and
\* in what is committed, every row of work_topics_2025 has a work_id that is
\* in works_2025 and a topic_id that is in topics, also when the enrichment
\* of the topic failed.
C3_LinksReferToStoredRows == LinksRefer(Tables) /\ LinksRefer(committed)

FailedEnrichment(tid) ==
    \E req \in DOMAIN upstream :
        req[1] = "topics" /\ req[2] = tid /\ upstream[req].feed # <<200>>

\* a work's first topic was upserted after its enrichment failed, and linked
C3_Witness ==
    /\ script = "nust_authors"
    /\ run = 1
    /\ hpc = "topics"
    /\ Len(links) = 1
    /\ FailedEnrichment(links[1].topic_id)
    /\ links[1].work_id = item.id
    /\ topics[links[1].topic_id].domain_id = None

\* C4: whatever number of times a pair (author id, work id) was observed (on
\* several pages, via several authors, in several years, in repeated runs)
\* the fact table has exactly one row for it, and no pair has two rows.  An
\* observation that the end of the process rolled back does not count.
C4_OneFactPerPair ==
    /\ \A p \in DOMAIN observed : Cardinality(RowsFor(facts, p[1], p[2])) = 1
    /\ \A i, j \in 1..Len(facts) :
          (facts[i].author_id = facts[j].author_id /\ facts[i].work_id = facts[j].work_id)
              => i = j

\* a pair observed three times or more has its one row
C4_Witness ==
    \E p \in DOMAIN observed :
        observed[p] >= 3 /\ Cardinality(RowsFor(facts, p[1], p[2])) = 1

\* C1: the tables a run of main() leaves are the tables the run before it
\* left, when both runs get the same pages, records and fetch outcomes.
C1_Idempotent == (run >= 2 /\ Finished) => Tables = after1

\* a second run that returned, over a store with works, facts and authors
C1_Witness ==
    /\ run = 2
    /\ hpc = "done"
    /\ Len(facts) >= 2
    /\ Cardinality(DOMAIN works) >= 2
    /\ authors # EmptyObj
    /\ warnings # {}

----------------------------------------------------------------------------
(* The paginator against a server whose cursors repeat                     *)

Stopped == ipc \in {"done", "raised"}

\* C11: a paginator that has started stops in the end, whatever tokens the
\* server returns, tokens it has returned before included.  The loop has no
\* memory of the cursors it has sent: `if not nxt: break` is its only exit,
\* so a server that keeps returning a token keeps it fetching.
C11_EventuallyStops == (ipc = "fetch") ~> Stopped

----------------------------------------------------------------------------
(* Failures of the listings                                                *)

WorksRequests == {req \in DOMAIN upstream : req[1] = "works"}

FetchFails(req) == get_with_retry(script, upstream[req].feed).result # "returned"

\* the (author, year) whose works listing had a page that failed
FailedAuthorYears == {<<req[2], req[3]>> : req \in {q \in WorksRequests : FetchFails(q)}}

ListedYears == FirstYear(script)..LastYear(script)

\* the work and its fact rows are in the tables
Stored(w) ==
    /\ w.id \in DOMAIN works
    /\ \A i \in 1..Len(AuthorshipsWithId(w)) :
          RowsFor(facts, AuthorshipsWithId(w)[i].author.id, w.id) # {}

\* C12: a works fetch that raises never ends the run: the run aborts only
\* in the author listing, it ends otherwise only while a work is being
\* processed; after a works fetch that raised the loop goes on to the next
\* author-year, and from there to a pagination or to the end of main().  In
\* a run that has returned,
\* a works pagination was started for every listed author and every year of
\* the range, the warnings name exactly the author-years of which a fetch
\* failed, and every work of a page that was fetched is stored with its facts.
C12_PartialFailureIsolation ==
    /\ hpc = "aborted" => iter = "iter_authors"
    /\ hpc = "crashed" => ipc = "suspended"
    /\ (hpc = "works" /\ ipc = "raised") => ENABLED WorksFailed
    /\ hpc = "per_author" => (ENABLED BeginWorks \/ ENABLED Finalize)
    /\ (run = 1 /\ hpc = "done") =>
          /\ \A i \in 1..Len(author_ids) : \A y \in ListedYears :
                <<"works", author_ids[i], y, "*", 0>> \in DOMAIN upstream
          /\ warnings = FailedAuthorYears
          /\ \A req \in WorksRequests :
                ~FetchFails(req) =>
                    \A k \in 1..Len(Results(upstream[req].body)) :
                        Stored(Results(upstream[req].body)[k])

\* a run returned after the works fetch of two author-years failed, with the
\* works of another author-year stored
C12_Witness ==
    /\ run = 1
    /\ hpc = "done"
    /\ Cardinality(warnings) = 2
    /\ \E req \in WorksRequests :
          /\ <<req[2], req[3]>> \notin warnings
          /\ Results(upstream[req].body) # <<>>
          /\ Stored(Results(upstream[req].body)[1])

\* the ids of the works on the pages fetched for the request
PageWorkIds(req) ==
    {Results(upstream[req].body)[k].id : k \in 1..Len(Results(upstream[req].body))}

\* work ids delivered by the listing of an author-year none of whose fetches failed
DeliveredBySound ==
    UNION {PageWorkIds(req) : req \in {q \in WorksRequests : <<q[2], q[3]>> \notin FailedAuthorYears}}

NoRowOf(wid) ==
    /\ wid \notin DOMAIN works
    /\ \A i \in 1..Len(facts) : facts[i].work_id # wid
    /\ \A i \in 1..Len(links) : links[i].work_id # wid

\* C13: when a fetch of an author-year's works listing failed, on whatever
\* page, the store the run leaves has no work, fact or link row that comes
\* from that listing alone.  The code keeps the rows of the pages fetched
\* before the failing one: nothing rolls them back and the next commit makes
\* them durable.
C13_FailedListingIsZeroWorks ==
    (run = 1 /\ hpc = "done") =>
        \A req \in WorksRequests :
            <<req[2], req[3]>> \in FailedAuthorYears =>
                \A wid \in PageWorkIds(req) \ DeliveredBySound : NoRowOf(wid)

\* C14: when a fetch of the author listing raises, the run ends there: the
\* only step is the one that leaves main() with the error, no works request
\* has been made, and no author of the part of the listing that was read is
\* in the database.  The code commits after every COMMIT_EVERY-th author of
\* the listing: the authors read before a later page fails stay stored.
C14_AuthorListingFailureIsFatal ==
    /\ (hpc = "authors" /\ ipc = "raised") =>
          /\ ENABLED AuthorsFailed
          /\ ~ENABLED AuthorsDone
          /\ ~ENABLED BeginWorks
          /\ ~ENABLED Finalize
    /\ hpc = "aborted" =>
          /\ WorksRequests = {}
          /\ authors = EmptyObj
          /\ committed.authors = EmptyObj

----------------------------------------------------------------------------
(* Topic enrichment in the harvest                                         *)

\* the hierarchy values a topic reference of a work payload carries
PayloadHierarchy(t) ==
    [subfield_id |-> GetStr(GetObj(t, "subfield"), "id"),
     subfield |-> GetStr(GetObj(t, "subfield"), "display_name"),
     field_id |-> GetStr(GetObj(t, "field"), "id"),
     field |-> GetStr(GetObj(t, "field"), "display_name"),
     domain_id |-> GetStr(GetObj(t, "domain"), "id"),
     domain |-> GetStr(GetObj(t, "domain"), "display_name")]

Linked(wid, tid) == \E i \in 1..Len(links) : links[i].work_id = wid /\ links[i].topic_id = tid

\* the upsert_topic(t) that has just run made a fetch, and the fetch raised
\* (a fetch that returns leaves t.id in the cache)
EnrichmentFailed(t) ==
    /\ WillFetchTopic(topic_cache, t)
    /\ t.id \in DOMAIN tcalls
    /\ FetchFails(<<"topics", t.id, 0, "-", tcalls[t.id]>>)

\* C15: a failing enrichment fetch of upsert_topic does not end the run;
\* after upsert_topic the topic of every reference that has an id is in the
\* topics table with the hierarchy values of the payload, and every
\* reference of the work processed so far has its link.  In the code a
\* reference without display_name whose enrichment failed makes the INSERT
\* raise sqlite3.IntegrityError, which nothing catches.
C15_EnrichmentFailureNeverBlocks ==
    /\ hpc = "crashed" => ~EnrichmentFailed(Head(todo).t)
    /\ hpc = "link" =>
          LET t == Head(todo).t
          IN  /\ t.id \in DOMAIN topics
              /\ \A c \in StatedHierarchy :
                    PayloadHierarchy(t)[c] # None => topics[t.id][c] = PayloadHierarchy(t)[c]
    /\ hpc = "topics" =>
          \A k \in 1..(Len(TopicsToAttach(item)) - Len(todo)) :
              Linked(item.id, TopicsToAttach(item)[k].t.id)

----------------------------------------------------------------------------
(* Transient statuses                                                      *)

\* C16: the tables a run of main() leaves when its fetches get transient
\* statuses before their 200, each within the retry budget, are the tables
\* that a run over the same snapshot leaves when every fetch gets its 200 at
\* once; both runs start with an empty database.  No fetch raises.
C16_TransientsChangeNothing ==
    /\ ipc # "raised"
    /\ (run >= 2 /\ Finished) => Tables = after1

\* the second run has returned, its last listing was fetched after retries,
\* and works, facts and authors are stored
C16_Witness ==
    /\ run = 2
    /\ hpc = "done"
    /\ works # EmptyObj
    /\ facts # <<>>
    /\ Tables = after1
    /\ \E k \in 1..Len(plog) : plog[k].op = "FETCH" /\ Len(plog[k].log) > 1

----------------------------------------------------------------------------
(* Venue classification                                                    *)

\* the three fields of a work the classification is stated over
SourceTypeOf(w) == GetText(GetObj(GetObj(w, "primary_location"), "source"), "type")

TypeOf(w) == GetText(w, "type")

CrossrefOf(w) == GetText(w, "type_crossref")

\* steps (2) and (3): the substring fallback over type and type_crossref,
\* conference signals first, then journal, then the default
StatedFallback(wt, tcr) ==
    LET has(x) == Contains(Lower(wt), x) \/ Contains(Lower(tcr), x)
    IN  IF has(PROCEEDINGS) \/ has(CONFERENCE) THEN CONFERENCE
        ELSE IF has(JOURNAL) THEN JOURNAL
        ELSE OTHER_VENUE

\* step (1) taken on the source type exactly as the payload spells it
StatedVenueExact(st, wt, tcr) ==
    IF st \in {JOURNAL, CONFERENCE} THEN st ELSE StatedFallback(wt, tcr)

\* step (1) taken on the source type lower-cased and stripped of blanks
StatedVenueNormalised(st, wt, tcr) ==
    IF Strip(Lower(st)) \in {JOURNAL, CONFERENCE} THEN Strip(Lower(st))
    ELSE StatedFallback(wt, tcr)

\* C17, as stated: the value classify_venue_type returns is the one the three
\* steps give when step (1) applies only to a source type that is exactly
\* 'journal' or 'conference', and every other source type goes to the fallback.
C17_ThreeStepsExactSourceType ==
    cpc = "returned" =>
        cresult = StatedVenueExact(SourceTypeOf(cwork), TypeOf(cwork), CrossrefOf(cwork))

\* C17, amended: the value classify_venue_type returns is one of journal,
\* conference, other, and it is a function of the source type, the type and
\* the type_crossref alone: the lower-cased, stripped source type when that is
\* 'journal' or 'conference', whatever type and type_crossref say; otherwise
\* 'conference' when type or type_crossref contains 'proceedings' or
\* 'conference' in any case, otherwise 'journal' when one of them contains
\* 'journal', otherwise 'other'.
C17_ThreeStepsNormalisedSourceType ==
    cpc = "returned" =>
        /\ cresult \in {JOURNAL, CONFERENCE, OTHER_VENUE}
        /\ cresult = StatedVenueNormalised(SourceTypeOf(cwork), TypeOf(cwork),
                                           CrossrefOf(cwork))

\* a source type spelt 'Journal' decided the result against a type_crossref
\* that says proceedings
C17_Witness ==
    /\ cpc = "returned"
    /\ SourceTypeOf(cwork) \notin {JOURNAL, CONFERENCE}
    /\ Strip(Lower(SourceTypeOf(cwork))) = JOURNAL
    /\ Contains(Lower(CrossrefOf(cwork)), PROCEEDINGS)
    /\ cresult = JOURNAL

\* a fallback that never ran: the structured type is all there is
C17_WitnessFallback ==
    /\ cpc = "returned"
    /\ SourceTypeOf(cwork) = <<>>
    /\ Contains(Lower(TypeOf(cwork)), JOURNAL)
    /\ Contains(Lower(CrossrefOf(cwork)), CONFERENCE)
    /\ cresult = CONFERENCE

----------------------------------------------------------------------------
(* Topic resolution and its cache                                          *)

\* C18: once get_topic_details has returned for a topic id, a later
\* resolution of that id in the same process makes no GET and returns the
\* record first returned; no topic id is fetched successfully more than
\* once, however many references resolve it.
C18_CacheHitMeansNoFetch ==
    /\ rlast.op = "get_topic_details" /\ rlast.known =>
          /\ rlast.gets = 0
          /\ ~rlast.raised
          /\ rlast.details = rfirst[rlast.tid]
    /\ rlast.op = "upsert_topic" /\ rlast.known => rlast.gets = 0
    /\ \A tid \in DOMAIN resolved : resolved[tid] <= 1

\* a topic resolved through upsert_topic, which fetched it, and then again
\* directly, with no further fetch
C18_Witness ==
    /\ rcount = 2
    /\ rlast.op = "get_topic_details"
    /\ rlast.known
    /\ rlast.gets = 0
    /\ rlast.tid \in DOMAIN topics
    /\ resolved = (rlast.tid :> 1)

\* the reference carries its immediate parent category and its top-level category
StatedComplete(t) ==
    /\ HasKey(t, "id")
    /\ TruthyObj(GetObj(t, "field"))
    /\ TruthyObj(GetObj(t, "domain"))

\* the column values a reference carries by itself
PayloadValues(t) == [display_name |-> GetStr(t, "display_name")] @@ PayloadHierarchy(t)

C19_WitnessFetch ==
    /\ rlast.op = "upsert_topic"
    /\ ~StatedComplete(rlast.t)
    /\ rlast.called
    /\ rlast.gets > 0

----------------------------------------------------------------------------
(* Commit boundaries                                                       *)

\* main() is between upsert_work of a work and the end of that work's
\* authorship and topic upserts
MidWork == hpc \in {"facts", "topics", "link"}

\* every work row of the store t is the row of a payload whose authorship
\* facts and topic links are in t too
FullyApplied(t) ==
    \A wid \in DOMAIN t.works :
       \E p \in WorkPayloads(script) :
          /\ p.id = wid
          /\ upsert_work(script, EmptyObj, p)[wid] = t.works[wid]
          /\ \A i \in 1..Len(AuthorshipsWithId(p)) :
                RowsFor(t.facts, AuthorshipsWithId(p)[i].author.id, wid) # {}
          /\ script = "nust_authors" =>
                \A j \in 1..Len(TopicsToAttach(p)) :
                   \E k \in 1..Len(t.links) :
                      /\ t.links[k].work_id = wid
                      /\ t.links[k].topic_id = TopicsToAttach(p)[j].t.id

\* a works generator was started in this run only after the commit that
\* ends the author listing: the committed authors are the listed ones
ListingCommitted ==
    iter = WorksIterator(script) =>
        /\ authors = committed.authors
        /\ \A i \in 1..Len(author_ids) : author_ids[i] \in DOMAIN committed.authors

\* C20: no step taken between the upsert of a work and the end of its fact
\* and link upserts commits; no works generator runs before the commit that
\* ends the author listing; and after every step, so wherever the process is
\* stopped, every work row of the committed store has the fact rows and the
\* link rows of its payload there too.
C20_CommittedStateFullyApplied ==
    [][ /\ MidWork => committed' = committed
        /\ ListingCommitted'
        /\ FullyApplied(committed') ]_vars

\* a work is being applied again from another payload, its new facts not
\* yet written, while the committed store holds the row, facts and links of
\* the earlier payload
C20_Witness ==
    /\ hpc = "facts"
    /\ item.id \in DOMAIN committed.works
    /\ works[item.id] # committed.works[item.id]
    /\ ~FullyApplied(Tables)
    /\ FullyApplied(committed)

\* the process ended inside a work: the open transaction is gone
C20_WitnessCrash ==
    /\ hpc = "crashed"
    /\ committed.works # EmptyObj
    /\ Tables = committed

----------------------------------------------------------------------------
(* Page ordering and pacing                                                *)

\* the consumer has processed record x: the author loop has upserted it,
\* the works loop has upserted it and reached the end of its body
Processed(x) ==
    IF hpc = "authors" THEN x.id \in DOMAIN authors
    ELSE x.id \in DOMAIN works /\ x.id \in seen_works

\* C21: in the log of one pagination requests and pauses alternate, a
\* request first, so one pause and no more lies between two consecutive
\* requests; a pause is followed by a request at once, so none follows the
\* last page; and when the next page is about to be requested every record
\* of the pages before has been yielded, taken and processed by the consumer.
C21_PageOrderAndPacing ==
    /\ \A k \in 1..Len(plog) :
          plog[k].op = (IF k % 2 = 1 THEN "FETCH" ELSE "PAUSE")
    /\ \A k \in 1..Len(plog) : plog[k].op = "PAUSE" => plog[k] = PauseEvent
    /\ (plog # <<>> /\ plog[Len(plog)].op = "PAUSE") => ipc = "fetch"
    /\ (ipc = "fetch" /\ served # <<>>) =>
          /\ plog # <<>> /\ plog[Len(plog)].op = "PAUSE"
          /\ yielded = Flatten(served)
          /\ hpc \in {"authors", "works"} =>
                \A k \in 1..Len(yielded) : Processed(yielded[k])
    /\ ipc = "done" => Len(plog) = 2 * Len(served) - 1

\* the second page of a works listing is about to be requested, after one
\* pause, the work of the first page stored
C21_Witness ==
    /\ hpc = "works"
    /\ ipc = "fetch"
    /\ Len(served) = 1
    /\ Len(plog) = 2
    /\ Len(yielded) = 1
    /\ yielded[1].id \in DOMAIN works

\* a pagination of two pages has ended: request, pause, request
C21_WitnessDone ==
    /\ ipc = "done"
    /\ Len(served) = 2
    /\ Len(plog) = 3

----------------------------------------------------------------------------
(* Traversal order                                                         *)

\* the author records the listing of the snapshot returns from cursor c on,
\* following next_cursor through at most n pages
RECURSIVE ListedFrom(_, _)
ListedFrom(c, n) ==
    LET req == <<"authors", "-", 0, c, 0>>
    IN  IF n = 0 \/ req \notin DOMAIN upstream \/ upstream[req].feed # <<200>>
        THEN <<>>
        ELSE Results(upstream[req].body)
             \o (IF EmptyCursor(ServedCursor(upstream[req].body)) THEN <<>>
                 ELSE ListedFrom(ServedCursor(upstream[req].body), n - 1))

ListedIds ==
    LET l == ListedFrom("*", MaxPages + 1)
    IN  [k \in 1..Len(l) |-> l[k].id]

PerAuthorStage == hpc \in {"per_author", "works", "facts", "topics", "link", "done"}

Distinct(q) == \A j, k \in 1..Len(q) : q[j] = q[k] => j = k

\* C22: in the PerAuthor stage the authors the loop goes through are those
\* the author listing of this run yielded, in the order it yielded them, and
\* the work the loop body is handed is the next one of the pages of that
\* author, in page order.  Stated for listings that yield no author twice.
C22_TraversalOrder ==
    (PerAuthorStage /\ Distinct(ListedIds)) =>
        /\ author_ids = ListedIds
        /\ (iter = WorksIterator(script) /\ ipc = "suspended") =>
              /\ Len(yielded) < Len(Flatten(served))
              /\ item = Flatten(served)[Len(yielded) + 1]
              /\ yielded = SubSeq(Flatten(served), 1, Len(yielded))

----------------------------------------------------------------------------
(* Fact rows and their work (conf_jour_outputs)                            *)

\* C23: once a work observation is complete (upsert_work and upsert_fact
\* have both run), every row of fact_authorships_works carries the year and
\* the venue type that the row of its work in the works table carries.
C23_FactsAgreeWithWork ==
    (script = "conf_jour_outputs" /\ hpc # "facts") =>
        \A i \in 1..Len(facts) :
           facts[i].work_id \in DOMAIN works =>
              /\ facts[i].year = works[facts[i].work_id].publication_year
              /\ facts[i].venue_type = works[facts[i].work_id].venue_type

----------------------------------------------------------------------------
(* The topic cache after a failed fetch                                    *)

\* the record get_topic_details makes of the JSON of a 200
StatedDetails(obj) ==
    [id |-> GetStr(obj, "id"),
     display_name |-> GetStr(obj, "display_name"),
     subfield |-> GetObj(obj, "subfield"),
     field |-> GetObj(obj, "field"),
     domain |-> IF TruthyObj(GetObj(GetObj(obj, "field"), "domain"))
                THEN GetObj(GetObj(obj, "field"), "domain")
                ELSE GetObj(obj, "domain")]

\* the last call resolved a topic id: get_topic_details ran
Resolving(c) ==
    \/ c.op = "get_topic_details"
    \/ c.op = "upsert_topic" /\ c.called

ResolvedId(c) == IF c.op = "get_topic_details" THEN c.tid ELSE c.t.id

\* the requests and sleeps of a get_with_retry that starts afresh on `feed`
FreshLog(feed) == get_with_retry("nust_authors", feed).log

\* C24: a resolution that raises leaves the cache as it was; an entry of the
\* cache is never removed nor replaced; the cache holds only ids that were
\* fetched with a 200, each with the record made of that answer; and a
\* resolution of an id whose earlier resolution raised, and which has not
\* been returned since, makes its own requests, as many as a first call
\* would make against the same answers.
C24_FailureLeavesCacheUnchanged ==
    [][ /\ \A tid \in DOMAIN topic_cache :
              tid \in DOMAIN topic_cache' /\ topic_cache'[tid] = topic_cache[tid]
        /\ (Resolving(rlast') /\ rlast'.raised) => topic_cache' = topic_cache
        /\ \A tid \in DOMAIN topic_cache' :
              /\ tid \in DOMAIN resolved'
              /\ \E b \in TopicBodies(tid) : topic_cache'[tid] = StatedDetails(b)
        /\ (Resolving(rlast') /\ rlast'.failed_before /\ ~rlast'.known) =>
              /\ rlast'.gets >= 1
              /\ rlast'.log = FreshLog(rlast'.feed) ]_vars

\* an incomplete reference whose first enrichment raised is met again:
\* upsert_topic fetches again and this time gets the record
C24_Witness ==
    /\ rcount = 2
    /\ rlast.op = "upsert_topic"
    /\ rlast.called
    /\ rlast.failed_before
    /\ ~rlast.raised
    /\ rlast.gets = 1
    /\ rlast.before.cache = EmptyObj
    /\ rlast.t.id \in DOMAIN topic_cache

\* the second resolution fails as well, after all its own retries
C24_WitnessFailsAgain ==
    /\ rcount = 2
    /\ rlast.failed_before
    /\ rlast.raised
    /\ rlast.gets > 1
    /\ topic_cache = EmptyObj

====
